---------------------------- MODULE Spec2Model ----------------------------
(***************************************************************************)
(* A model of the Inventor importer: the segment reader of importerDC.py   *)
(* (DCReader: setNodeData, the reference readers, a family of record       *)
(* decoders) and the orchestration of Import_IPT.py (ReadFile,             *)
(* ReadElement, insert, open).                                             *)
(*                                                                         *)
(* Buffers are sequences of bytes; an offset o of the code addresses       *)
(* element o+1 of the sequence.  A decoder runs on an execution context    *)
(* "st": the node it fills (data, attrs, childIndexes, typeName), the      *)
(* running offset i, the flag err (an exception is propagating) and the    *)
(* reader's document kind rtype (self.type).                               *)
(***************************************************************************)
EXTENDS Integers, Sequences, FiniteSets, TLC

\* ------------------------------------------------------------------ bounds
\* Longest node table of a segment.
MaxNodes == 2
\* Largest queue position / list position drawn for a single reference read.
MaxNumber == 2
\* Streams in a listing of a file.
MaxStreams == 4
\* Longest node table of a segment of an imported file.
MaxRecs == 1

\* -------------------------------------------------------- program constants
DOC_ASSEMBLY     == 1
DOC_DRAWING      == 2
DOC_PART         == 3
DOC_PRESENTATION == 4
\* self.type before any Document node was decoded: DCReader.__init__ does not
\* assign it.
DOC_UNSET        == 0

TYPE_PARENT == 1
TYPE_CHILD  == 2
TYPE_CROSS  == 3

\* The releases on both sides of the version thresholds of the modelled decoders
\* (> 2011, > 2012, > 2017).
Versions == {2011, 2012, 2013, 2018}

\* ---------------------------------------------------------- primitive codec
\* importerUtils: little-endian fixed-width reads.  A read that does not lie
\* inside the buffer raises (struct.error).
CanRead(data, offset, n) == offset >= 0 /\ offset + n <= Len(data)

getUInt8(data, offset) == data[offset + 1]

getUInt16(data, offset) == data[offset + 1] + 256 * data[offset + 2]

getUInt32(data, offset) ==
    data[offset + 1] + 256 * data[offset + 2]
      + 65536 * data[offset + 3] + 16777216 * data[offset + 4]

\* A signed 32-bit value: the top byte counts as two's complement.
getSInt32(data, offset) ==
    data[offset + 1] + 256 * data[offset + 2] + 65536 * data[offset + 3]
      + 16777216 * (IF data[offset + 4] >= 128 THEN data[offset + 4] - 256
                    ELSE data[offset + 4])

\* The bytes offset .. offset+n-1 (a float64, a UUID or a text is kept as its bytes).
getBytes(data, offset, n) == SubSeq(data, offset + 1, offset + n)

RECURSIVE getUInt32A(_, _, _)
getUInt32A(data, offset, n) ==
    IF n = 0 THEN <<>>
    ELSE <<getUInt32(data, offset)>> \o getUInt32A(data, offset + 4, n - 1)

RECURSIVE getUInt16A(_, _, _)
getUInt16A(data, offset, n) ==
    IF n = 0 THEN <<>>
    ELSE <<getUInt16(data, offset)>> \o getUInt16A(data, offset + 2, n - 1)

\* --------------------------------------------------------------- attributes
EmptyAttrs == [x \in {} |-> <<>>]

Put(attrs, name, v) == (name :> v) @@ attrs

Has(attrs, name) == name \in DOMAIN attrs

\* Attribute values are tagged: <<"int", n>>, <<"raw", bytes>>, <<"arr", seq>>,
\* <<"bool", b>>, <<"lst", seq of values>>, <<"ref", k>> (the k-th entry of the
\* node's childIndexes: the NodeRef object is shared between the attribute and
\* the queue) and <<"null">> (None).
IntV(n)  == <<"int", n>>
RawV(b)  == <<"raw", b>>
ArrV(a)  == <<"arr", a>>
BoolV(b) == <<"bool", b>>
LstV(l)  == <<"lst", l>>
RefV(k)  == <<"ref", k>>
NullV    == <<"null">>

\* -------------------------------------------------------- execution context
Raise(st) == [st EXCEPT !.err = TRUE]

set(st, name, v) == [st EXCEPT !.attrs = Put(@, name, v)]

\* node.get(name): None for an attribute that was never set.
get(st, name) == IF Has(st.attrs, name) THEN st.attrs[name] ELSE NullV

\* SegmentReader.skipBlockSize: steps over a 32-bit block-size marker without
\* reading it.
skipBlockSize(st) == IF st.err THEN st ELSE [st EXCEPT !.i = @ + 4]

\* i += n in a decoder.
Advance(st, n) == IF st.err THEN st ELSE [st EXCEPT !.i = @ + n]

ReadUInt8(st, name) ==
    IF st.err THEN st
    ELSE IF ~CanRead(st.data, st.i, 1) THEN Raise(st)
    ELSE [set(st, name, IntV(getUInt8(st.data, st.i))) EXCEPT !.i = @ + 1]

ReadUInt16(st, name) ==
    IF st.err THEN st
    ELSE IF ~CanRead(st.data, st.i, 2) THEN Raise(st)
    ELSE [set(st, name, IntV(getUInt16(st.data, st.i))) EXCEPT !.i = @ + 2]

ReadUInt32(st, name) ==
    IF st.err THEN st
    ELSE IF ~CanRead(st.data, st.i, 4) THEN Raise(st)
    ELSE [set(st, name, IntV(getUInt32(st.data, st.i))) EXCEPT !.i = @ + 4]

ReadSInt32(st, name) ==
    IF st.err THEN st
    ELSE IF ~CanRead(st.data, st.i, 4) THEN Raise(st)
    ELSE [set(st, name, IntV(getSInt32(st.data, st.i))) EXCEPT !.i = @ + 4]

ReadFloat64(st, name) ==
    IF st.err THEN st
    ELSE IF ~CanRead(st.data, st.i, 8) THEN Raise(st)
    ELSE [set(st, name, RawV(getBytes(st.data, st.i, 8))) EXCEPT !.i = @ + 8]

ReadFloat64A(st, n, name) ==
    IF st.err THEN st
    ELSE IF ~CanRead(st.data, st.i, 8 * n) THEN Raise(st)
    ELSE [set(st, name, RawV(getBytes(st.data, st.i, 8 * n))) EXCEPT !.i = @ + 8 * n]

ReadUInt16A(st, n, name) ==
    IF st.err THEN st
    ELSE IF ~CanRead(st.data, st.i, 2 * n) THEN Raise(st)
    ELSE [set(st, name, ArrV(getUInt16A(st.data, st.i, n))) EXCEPT !.i = @ + 2 * n]

ReadUInt32A(st, n, name) ==
    IF st.err THEN st
    ELSE IF ~CanRead(st.data, st.i, 4 * n) THEN Raise(st)
    ELSE [set(st, name, ArrV(getUInt32A(st.data, st.i, n))) EXCEPT !.i = @ + 4 * n]

ReadUUID(st, name) ==
    IF st.err THEN st
    ELSE IF ~CanRead(st.data, st.i, 16) THEN Raise(st)
    ELSE [set(st, name, RawV(getBytes(st.data, st.i, 16))) EXCEPT !.i = @ + 16]

\* A 32-bit length, then that many UTF-16 code units.
ReadLen32Text16(st, name) ==
    IF st.err THEN st
    ELSE IF ~CanRead(st.data, st.i, 4) THEN Raise(st)
    ELSE LET len == getUInt32(st.data, st.i)
         IN  IF ~CanRead(st.data, st.i + 4, 2 * len) THEN Raise(st)
             ELSE [set(st, name, RawV(getBytes(st.data, st.i + 4, 2 * len)))
                     EXCEPT !.i = @ + 4 + 2 * len]


\* A raw read of n bytes whose value goes to a local variable of the decoder.
Take(st, n) ==
    IF st.err THEN st
    ELSE IF ~CanRead(st.data, st.i, n) THEN Raise(st)
    ELSE [st EXCEPT !.i = @ + n]

\* logError(...)
LogError(st, what) == [st EXCEPT !.log = Append(@, what)]

\* ------------------------------------------------------------- references
\* importerSegNode.NodeRef(n, m, type): the two 16-bit words give the index
\* (low 31 bits) and a mask bit; number and node start empty.
NodeRef(n, m, type) ==
    [index  |-> n + (m % 32768) * 65536,
     mask   |-> m \div 32768,
     type   |-> type,
     number |-> 0,
     node   |-> 0]

\* A faulty ReadNodeRef: the reference is queued whatever its index.
ReadNodeRef_QueueAll(st, number, type) ==
    IF st.err THEN [st |-> st, ref |-> NullV]
    ELSE IF ~CanRead(st.data, st.i, 4) THEN [st |-> Raise(st), ref |-> NullV]
    ELSE [st  |-> [st EXCEPT !.i = @ + 4,
                             !.childIndexes =
                                 Append(@, [NodeRef(getUInt16(st.data, st.i),
                                                    getUInt16(st.data, st.i + 2), type)
                                              EXCEPT !.number = number])],
          ref |-> RefV(Len(st.childIndexes) + 1)]

\* DCReader.ReadNodeRef: the result is the context after the read and the value
\* handed back (RefV(k), the k-th queued reference, or NullV).
ReadNodeRef(st, number, type) ==
    IF st.err THEN [st |-> st, ref |-> NullV]
    ELSE IF ~CanRead(st.data, st.i, 4) THEN [st |-> Raise(st), ref |-> NullV]
    ELSE LET n   == getUInt16(st.data, st.i)
             m   == getUInt16(st.data, st.i + 2)
             ref == NodeRef(n, m, type)
         IN  IF ref.index > 0
             THEN [st  |-> [st EXCEPT !.i = @ + 4,
                                      !.childIndexes =
                                          Append(@, [ref EXCEPT !.number = number])],
                   ref |-> RefV(Len(st.childIndexes) + 1)]
             ELSE [st |-> [st EXCEPT !.i = @ + 4], ref |-> NullV]

\* AbstractNode.ReadChildRef / ReadCrossRef / ReadParentRef: one reference read
\* through the reader's ReadNodeRef, stored under the attribute's name.
StoreRef(r, name) == IF r.st.err THEN r.st ELSE set(r.st, name, r.ref)

ReadRef(st, name, type) == StoreRef(ReadNodeRef(st, 0, type), name)

ReadChildRef(st, name) == ReadRef(st, name, TYPE_CHILD)

ReadCrossRef(st, name) == ReadRef(st, name, TYPE_CROSS)

ReadParentRef(st) == ReadRef(st, "parentIndex", TYPE_PARENT)

\* ------------------------------------------------------------------- lists
\* The body of DCReader.ReadRefList's loop, j = from .. cnt-1: the context after
\* the reads and the list built so far.
RECURSIVE RefListItems(_, _, _, _, _)
\* A faulty RefListAppend: a null reference is left out of the list.
RefListAppend_DropNull(r, j, cnt, type, lst) ==
    RefListItems(r.st, j + 1, cnt, type,
                 IF r.st.err \/ r.ref = NullV THEN lst ELSE Append(lst, r.ref))

RefListAppend(r, j, cnt, type, lst) ==
    RefListItems(r.st, j + 1, cnt, type, IF r.st.err THEN lst ELSE Append(lst, r.ref))

RefListItems(st, j, cnt, type, lst) ==
    IF st.err \/ j >= cnt THEN [st |-> st, lst |-> lst]
    ELSE RefListAppend(ReadNodeRef(st, j, type), j, cnt, type, lst)

\* A faulty StoreList: an empty list is stored as None.
StoreList_NullIfEmpty(r, name) ==
    IF r.st.err THEN r.st
    ELSE set(r.st, name, IF r.lst = <<>> THEN NullV ELSE LstV(r.lst))

\* node.set(name, lst) once the loop has ended without an exception.
StoreList(r, name) == IF r.st.err THEN r.st ELSE set(r.st, name, LstV(r.lst))

\* DCReader.ReadRefList: a 32-bit count, then count cross references.
ReadRefList(st, name) ==
    IF st.err THEN st
    ELSE IF ~CanRead(st.data, st.i, 4) THEN Raise(st)
    ELSE StoreList(RefListItems([st EXCEPT !.i = @ + 4], 0,
                                getUInt32(st.data, st.i), TYPE_CROSS, <<>>), name)

\* AbstractNode.ReadList2 / ReadList8 with an element type of references: a
\* 32-bit count, then count references of the given kind.
ReadListOfRefs(st, type, name) ==
    IF st.err THEN st
    ELSE IF ~CanRead(st.data, st.i, 4) THEN Raise(st)
    ELSE StoreList(RefListItems([st EXCEPT !.i = @ + 4], 0,
                                getUInt32(st.data, st.i), type, <<>>), name)

\* AbstractNode.ReadList2 / ReadList8 with _TYP_1D_UINT32_: a 32-bit count, then
\* count 32-bit values.
ReadListOfUInt32(st, name) ==
    IF st.err THEN st
    ELSE IF ~CanRead(st.data, st.i, 4) THEN Raise(st)
    ELSE LET cnt == getUInt32(st.data, st.i)
         IN  IF ~CanRead(st.data, st.i + 4, 4 * cnt) THEN Raise(st)
             ELSE [set(st, name, ArrV(getUInt32A(st.data, st.i + 4, cnt)))
                     EXCEPT !.i = @ + 4 + 4 * cnt]

\* One entry of a ReadList6 map: a 32-bit key and a reference.
RECURSIVE MapItems(_, _, _, _, _)
MapAppend(r, key, j, cnt, type, lst) ==
    MapItems(r.st, j + 1, cnt, type,
             IF r.st.err THEN lst ELSE Append(lst, LstV(<<IntV(key), r.ref>>)))

MapItems(st, j, cnt, type, lst) ==
    IF st.err \/ j >= cnt THEN [st |-> st, lst |-> lst]
    ELSE IF ~CanRead(st.data, st.i, 4) THEN [st |-> Raise(st), lst |-> lst]
    ELSE MapAppend(ReadNodeRef([st EXCEPT !.i = @ + 4], j, type),
                   getUInt32(st.data, st.i), j, cnt, type, lst)

\* AbstractNode.ReadList6: a 32-bit count, then count (key, reference) entries.
ReadList6(st, type, name) ==
    IF st.err THEN st
    ELSE IF ~CanRead(st.data, st.i, 4) THEN Raise(st)
    ELSE StoreList(MapItems([st EXCEPT !.i = @ + 4], 0,
                            getUInt32(st.data, st.i), type, <<>>), name)

\* The list readers of DCReader other than ReadRefList share one shape: a 32-bit
\* count, then count tuples, each a fixed sequence of fields; the tuple is
\* appended to the list as a list of the fields' values.  A field is a reference
\* of a given kind, a 32-bit word, a byte, a float64 or an array of 32-bit words.
RefField(type) == [k |-> "ref", type |-> type]

U32Field == [k |-> "u32"]

U8Field == [k |-> "u8"]

F64Field == [k |-> "f64"]

U32AField(size) == [k |-> "u32a", n |-> size]

FieldOfRef(r) == [st |-> r.st, val |-> r.ref]

FieldRead(st, n, val) ==
    IF ~CanRead(st.data, st.i, n) THEN [st |-> Raise(st), val |-> NullV]
    ELSE [st |-> [st EXCEPT !.i = @ + n], val |-> val]

\* One field of the tuple j: the context after the read and the value.
ReadField(st, j, f) ==
    CASE f.k = "ref" -> FieldOfRef(ReadNodeRef(st, j, f.type))
      [] f.k = "u32" -> FieldRead(st, 4, IF CanRead(st.data, st.i, 4)
                                         THEN IntV(getUInt32(st.data, st.i)) ELSE NullV)
      [] f.k = "u8" -> FieldRead(st, 1, IF CanRead(st.data, st.i, 1)
                                        THEN IntV(getUInt8(st.data, st.i)) ELSE NullV)
      [] f.k = "f64" -> FieldRead(st, 8, IF CanRead(st.data, st.i, 8)
                                         THEN RawV(getBytes(st.data, st.i, 8)) ELSE NullV)
      [] f.k = "u32a" -> FieldRead(st, 4 * f.n,
                                   IF CanRead(st.data, st.i, 4 * f.n)
                                   THEN ArrV(getUInt32A(st.data, st.i, f.n)) ELSE NullV)

\* The fields k .. of the tuple j, read one after the other.
RECURSIVE ReadTuple(_, _, _, _, _)
TupleNext(r, j, fmt, k, acc) ==
    ReadTuple(r.st, j, fmt, k + 1, IF r.st.err THEN acc ELSE Append(acc, r.val))

ReadTuple(st, j, fmt, k, acc) ==
    IF st.err \/ k > Len(fmt) THEN [st |-> st, val |-> acc]
    ELSE TupleNext(ReadField(st, j, fmt[k]), j, fmt, k, acc)

\* while (j < cnt): the tuple is read and appended.
RECURSIVE TupleItems(_, _, _, _, _)
TupleAppend(r, j, cnt, fmt, lst) ==
    TupleItems(r.st, j + 1, cnt, fmt,
               IF r.st.err THEN lst ELSE Append(lst, LstV(r.val)))

TupleItems(st, j, cnt, fmt, lst) ==
    IF st.err \/ j >= cnt THEN [st |-> st, lst |-> lst]
    ELSE TupleAppend(ReadTuple(st, j, fmt, 1, <<>>), j, cnt, fmt, lst)

ReadTupleList(st, name, fmt) ==
    IF st.err THEN st
    ELSE IF ~CanRead(st.data, st.i, 4) THEN Raise(st)
    ELSE StoreList(TupleItems([st EXCEPT !.i = @ + 4], 0,
                              getUInt32(st.data, st.i), fmt, <<>>), name)

\* DCReader.ReadRefRefList
ReadRefRefList(st, name) ==
    ReadTupleList(st, name, <<RefField(TYPE_CHILD), RefField(TYPE_CHILD)>>)

\* DCReader.ReadRefXRefList
ReadRefXRefList(st, name) ==
    ReadTupleList(st, name, <<RefField(TYPE_CHILD), RefField(TYPE_CROSS)>>)

\* DCReader.ReadRefU32List
ReadRefU32List(st, name) ==
    ReadTupleList(st, name, <<RefField(TYPE_CROSS), U32Field>>)

\* DCReader.ReadRefU32AList
ReadRefU32AList(st, name, size, type) ==
    ReadTupleList(st, name, <<RefField(type), U32AField(size)>>)

\* DCReader.ReadRefU32U8List
ReadRefU32U8List(st, name) ==
    ReadTupleList(st, name, <<RefField(TYPE_CROSS), U32Field, U8Field>>)

\* DCReader.ReadRefU32D64List
ReadRefU32D64List(st, name) ==
    ReadTupleList(st, name, <<RefField(TYPE_CROSS), U32Field, F64Field>>)

\* ----------------------------------------------------------------- headers
\* AbstractNode.Read_Header0: the record's own markers (a 32-bit and a 16-bit
\* word) and a block-size marker; no reference.
Read_Header0(st) ==
    LET s1 == ReadUInt32([st EXCEPT !.i = 0], "hdr_u32")
        s2 == ReadUInt16(s1, "hdr_u16")
    IN  skipBlockSize(s2)

\* A faulty SetHeaderFlags: visible is taken from any bit up to 0x400.
SetHeaderFlags_AnyLowBit(st) ==
    IF st.err THEN st
    ELSE [st EXCEPT !.attrs =
            Put(Put(Put(@, "visible", BoolV(@["flags"][2] % 2048 > 0)),
                    "dimensioningVisible", BoolV((@["flags"][2] \div 8388608) % 2 = 1)),
                "ContentHeader", BoolV(TRUE))]

\* The end of ReadContentHeader: flags & 0x00000400 and flags & 0x00800000 give
\* visible and dimensioningVisible.
SetHeaderFlags(st) ==
    IF st.err THEN st
    ELSE [st EXCEPT !.attrs =
            Put(Put(Put(@, "visible", BoolV((@["flags"][2] \div 1024) % 2 = 1)),
                    "dimensioningVisible", BoolV((@["flags"][2] \div 8388608) % 2 = 1)),
                "ContentHeader", BoolV(TRUE))]

\* DCReader.ReadContentHeader
ReadContentHeader(st) ==
    LET s1 == Read_Header0(st)
        s2 == ReadChildRef(s1, "label")
        s3 == ReadUInt32(s2, "flags")
        s4 == skipBlockSize(s3)
        s5 == ReadParentRef(s4)
        s6 == ReadUInt32(s5, "index")
    IN  SetHeaderFlags(s6)

\* DCReader.ReadSketch2DEntityHeader
ReadSketch2DEntityHeader(st, typeName) ==
    LET s0 == [st EXCEPT !.typeName = typeName]
        s1 == ReadContentHeader(s0)
        s2 == skipBlockSize(skipBlockSize(skipBlockSize(s1)))
        s3 == ReadSInt32(s2, "s32_0")
        s4 == skipBlockSize(s3)
    IN  ReadCrossRef(s4, "refSketch")

\* A faulty ConstraintLists: the lists are read for fileVersion 2012 as well.
ConstraintLists_From2012(st, ver) ==
    IF ver > 2011
    THEN ReadList6(ReadList6(st, TYPE_CROSS, "lst0"), TYPE_CROSS, "lst1")
    ELSE skipBlockSize(skipBlockSize(st))

\* The version-gated part of ReadConstraintHeader2D: the two lists, or two
\* block-size markers.
ConstraintLists(st, ver) ==
    IF ver > 2012
    THEN ReadList6(ReadList6(st, TYPE_CROSS, "lst0"), TYPE_CROSS, "lst1")
    ELSE skipBlockSize(skipBlockSize(st))

\* DCReader.ReadConstraintHeader2D
ReadConstraintHeader2D(st, typeName, ver) ==
    LET s0 == [st EXCEPT !.typeName = typeName]
        s1 == ReadContentHeader(s0)
        s2 == skipBlockSize(s1)
        s3 == ReadSInt32(s2, "s32_0")
        s4 == skipBlockSize(s3)
        s5 == ReadCrossRef(s4, "refGroup")
        s6 == ConstraintLists(s5, ver)
    IN  ReadCrossRef(s6, "refParameter")

\* ---------------------------------------------------------------- decoders
\* A decoder maps the context at entry (st.i is unused: a decoder starts at its
\* first read) and the file version to the context at exit: st.i is the offset
\* it returns, st.err says that it raised instead.

\* self.type read by a decoder.  Before any Document node was decoded the
\* attribute was never assigned: the read raises AttributeError when the base
\* class defines no such attribute (st.unsetRaises) and otherwise yields a
\* value that equals no document kind.
TypeReadRaises(st) == st.rtype = DOC_UNSET /\ st.unsetRaises

\* A faulty Read_F645595C: the offset it was entered with, not len(node.data).
Read_F645595C_Start(st, ver) ==
    [st EXCEPT !.typeName = "TransactablePartition"]

\* Read_F645595C: TransactablePartition
Read_F645595C(st, ver) ==
    [st EXCEPT !.typeName = "TransactablePartition", !.i = Len(st.data)]

\* A faulty Read_CE52DF3A: the last of the four trailing floats is not read.
Read_CE52DF3A_NoDirY(st, ver) ==
    LET s1 == ReadSketch2DEntityHeader(st, "Line2D")
        s2 == skipBlockSize(s1)
        s3 == ReadListOfRefs(s2, TYPE_CROSS, "points")
        s4 == skipBlockSize(s3)
        s5 == IF ver > 2012 THEN ReadListOfRefs(s4, TYPE_CROSS, "lst1") ELSE s4
        s6 == ReadFloat64(s5, "x")
        s7 == ReadFloat64(s6, "y")
    IN  ReadFloat64(s7, "dirX")

\* Read_CE52DF3A: SketchLine
Read_CE52DF3A(st, ver) ==
    LET s1 == ReadSketch2DEntityHeader(st, "Line2D")
        s2 == skipBlockSize(s1)
        s3 == ReadListOfRefs(s2, TYPE_CROSS, "points")
        s4 == skipBlockSize(s3)
        s5 == IF ver > 2012 THEN ReadListOfRefs(s4, TYPE_CROSS, "lst1") ELSE s4
        s6 == ReadFloat64(s5, "x")
        s7 == ReadFloat64(s6, "y")
        s8 == ReadFloat64(s7, "dirX")
    IN  ReadFloat64(s8, "dirY")

\* (getFileVersion() > 2011) and (self.type == DCReader.DOC_PART): i += 4.
\* self.type is read only when the version test passes.
SkipIfPart(st, ver) ==
    IF st.err \/ ~(ver > 2011) THEN st
    ELSE IF TypeReadRaises(st) THEN Raise(st)
    ELSE IF st.rtype = DOC_PART THEN Advance(st, 4)
    ELSE st

\* Read_452121B6: ModelerTxnMgr
Read_452121B6(st, ver) ==
    LET s0 == [st EXCEPT !.typeName = "ModelerTxnMgr"]
        s1 == Read_Header0(s0)
        s2 == ReadChildRef(s1, "ref_1")
        s3 == ReadUInt32(s2, "flags")
        s4 == skipBlockSize(s3)
        s5 == ReadParentRef(s4)
        s6 == ReadChildRef(s5, "ref_2")
        s7 == ReadUInt32(s6, "u32_0")
        s8 == SkipIfPart(s7, ver)
        s9 == ReadUInt32(s8, "u32_1")
        s10 == ReadList6(s9, TYPE_CHILD, "lst0")
    IN  ReadUInt32(s10, "u32_2")

\* The branch of Read_6CA92D02 on self.type: the assembly layout or the other.
Layout_6CA92D02(st, ver) ==
    IF st.err THEN st
    ELSE IF TypeReadRaises(st) THEN Raise(st)
    ELSE IF st.rtype = DOC_ASSEMBLY THEN ReadLen32Text16(st, "txt")
    ELSE LET t1 == skipBlockSize(st)
             t2 == ReadUInt32(t1, "u32_1")
             t3 == IF ver > 2017 THEN Advance(t2, 4) ELSE skipBlockSize(t2)
             t4 == ReadUInt32(t3, "u32_2")
             t5 == skipBlockSize(t4)
             t6 == ReadListOfUInt32(t5, "lst0")
             t7 == ReadListOfUInt32(t6, "lst1")
             t8 == ReadUInt8(t7, "u8_1")
             t9 == skipBlockSize(t8)
             t10 == ReadCrossRef(t9, "ref_1")
             t11 == ReadCrossRef(t10, "ref_2")
             t12 == ReadUInt32(t11, "u32_3")
         IN  ReadUInt8(t12, "u8_2")

\* Read_6CA92D02
Read_6CA92D02(st, ver) ==
    LET s1 == ReadContentHeader(st)
        s2 == skipBlockSize(s1)
        s3 == ReadSInt32(s2, "s32_0")
        s4 == skipBlockSize(skipBlockSize(s3))
        s5 == ReadUInt8(s4, "u8_0")
        s6 == ReadUInt32(s5, "u32_0")
        s7 == ReadUInt8(s6, "u8_1")
    IN  Layout_6CA92D02(s7, ver)

\* Read_90874D16: Document of a part
Read_90874D16(st, ver) ==
    LET s0 == [st EXCEPT !.typeName = "Document", !.rtype = DOC_PART]
        s1 == Read_Header0(s0)
        s2 == ReadChildRef(s1, "label")
        s3 == ReadUInt32(s2, "u32_0")
        s4 == skipBlockSize(s3)
        s5 == ReadUUID(s4, "uid_0")
        s6 == ReadLen32Text16(s5, "name")
        s7 == ReadListOfRefs(s6, TYPE_CHILD, "lst0")
        s8 == ReadUInt16A(s7, 6, "a0")
        s9 == skipBlockSize(s8)
        s10 == ReadChildRef(s9, "refElements")
        s11 == ReadChildRef(s10, "ref_1")
        s12 == skipBlockSize(s11)
        s13 == ReadChildRef(s12, "ref_2")
        s14 == ReadChildRef(s13, "refWorkbook")
        s15 == ReadChildRef(s14, "cld_1")
        s16 == ReadChildRef(s15, "cld_2")
        s17 == skipBlockSize(s16)
        s18 == ReadCrossRef(s17, "ref_3")
        s19 == ReadUInt16A(s18, 2, "a0")
        s20 == ReadChildRef(s19, "ref_5")
        s21 == ReadUInt32(s20, "u32_2")
        s22 == ReadChildRef(s21, "red_6")
        s23 == skipBlockSize(s22)
        s24 == ReadCrossRef(s23, "ref_7")
        s25 == ReadLen32Text16(s24, "refSegName")
        s26 == ReadFloat64(s25, "f64_0")
    IN  ReadCrossRef(s26, "ref_8")

\* Read_90874D46: Document of an assembly
Read_90874D46(st, ver) ==
    LET s0 == [st EXCEPT !.typeName = "Document", !.rtype = DOC_ASSEMBLY]
        s1 == Read_Header0(s0)
        s2 == ReadChildRef(s1, "label")
        s3 == ReadUInt32(s2, "u32_0")
        s4 == skipBlockSize(s3)
        s5 == ReadUUID(s4, "uid_0")
        s6 == ReadLen32Text16(s5, "name")
        s7 == ReadListOfRefs(s6, TYPE_CHILD, "lst0")
        s8 == ReadUInt32A(s7, 3, "a0")
        s9 == skipBlockSize(s8)
        s10 == ReadChildRef(s9, "refElements")
        s11 == ReadChildRef(s10, "ref_1")
        s12 == skipBlockSize(s11)
        s13 == ReadChildRef(s12, "ref_2")
        s14 == ReadUInt32(s13, "u32_1")
        s15 == ReadChildRef(s14, "ref_3")
        s16 == ReadChildRef(s15, "ref_4")
        s17 == skipBlockSize(s16)
        s18 == ReadUInt32A(s17, 2, "a2")
        s19 == ReadChildRef(s18, "ref_5")
        s20 == ReadUInt32(s19, "u32_2")
        s21 == ReadChildRef(s20, "ref_6")
        s22 == skipBlockSize(s21)
        s23 == ReadUInt32(s22, "u32_2")
        s24 == ReadChildRef(s23, "ref_7")
        s25 == ReadUInt32(s24, "u32_3")
        s26 == ReadListOfRefs(s25, TYPE_CHILD, "lst1")
        s27 == ReadChildRef(s26, "ref_8")
        s28 == ReadChildRef(s27, "ref_9")
        s29 == ReadChildRef(s28, "ref_A")
    IN  IF ver > 2012 THEN ReadChildRef(s29, "ref_B") ELSE s29

\* getFloat64A(node.data, i, a[1] * k) after a, i = getUInt32A(node.data, i, n):
\* a[1] is the second of the n words just read.
TakeCounted(st, n, k) ==
    IF st.err THEN st
    ELSE Take(st, 8 * k * getUInt32(st.data, st.i - 4 * n + 4))

RECURSIVE Blocks_19F763CB(_, _, _)
Blocks_19F763CB(st, j, cnt) ==
    IF st.err \/ j >= cnt THEN [st |-> st, returned |-> FALSE]
    ELSE IF ~CanRead(st.data, st.i, 4) THEN [st |-> Raise(st), returned |-> FALSE]
    ELSE IF getUInt32(st.data, st.i) = 23      \* 0x17
    THEN Blocks_19F763CB(Take(Advance(st, 4), 8 * 6), j + 1, cnt)
    ELSE IF getUInt32(st.data, st.i) = 42      \* 0x2A
    THEN LET a1 == Take(Advance(st, 4), 4 * 3)
             f1 == Take(a1, 8)
             a2 == Take(f1, 4 * 5)
             a3 == TakeCounted(a2, 5, 1)
             a4 == Take(a3, 4 * 4)
             a5 == TakeCounted(a4, 4, 3)
             f2 == Take(a5, 8)
             a6 == Take(f2, 4 * 4)
             a7 == TakeCounted(a6, 4, 1)
         IN  Blocks_19F763CB(a7, j + 1, cnt)
    ELSE [st |-> LogError(Advance(st, 4), "Unknown block type"), returned |-> TRUE]

\* What follows the loop of Read_19F763CB, unless the decoder returned inside it.
After_19F763CB(r) ==
    IF r.returned THEN r.st
    ELSE ReadFloat64A(ReadCrossRef(r.st, "refSketch"), 3, "a1")

\* cnt = node.get('cnt'), the loop and what follows it.
Loop_19F763CB(st) ==
    IF st.err THEN st
    ELSE After_19F763CB(Blocks_19F763CB(st, 0, st.attrs["cnt"][2]))

\* Read_19F763CB
Read_19F763CB(st, ver) ==
    LET s1 == Read_Header0(st)
        s2 == ReadUInt32A(s1, 2, "a0")
        s3 == skipBlockSize(s2)
        s4 == ReadUInt32(s3, "idx")
        s5 == ReadUInt32(s4, "cnt")
    IN  Loop_19F763CB(s5)

\* ReadSInt16 / ReadEnum16: a 16-bit value (the enumeration's number is kept).
ReadSInt16(st, name) ==
    IF st.err THEN st
    ELSE IF ~CanRead(st.data, st.i, 2) THEN Raise(st)
    ELSE [set(st, name, IntV(IF getUInt16(st.data, st.i) >= 32768
                             THEN getUInt16(st.data, st.i) - 65536
                             ELSE getUInt16(st.data, st.i))) EXCEPT !.i = @ + 2]

ReadEnum16(st, name) == ReadUInt16(st, name)

\* A 32-bit length, then that many 8-bit characters.
ReadLen32Text8(st, name) ==
    IF st.err THEN st
    ELSE IF ~CanRead(st.data, st.i, 4) THEN Raise(st)
    ELSE IF ~CanRead(st.data, st.i + 4, getUInt32(st.data, st.i)) THEN Raise(st)
    ELSE [set(st, name, RawV(getBytes(st.data, st.i + 4, getUInt32(st.data, st.i))))
            EXCEPT !.i = @ + 4 + getUInt32(st.data, st.i)]

\* node.name: the text read by ReadLen32Text16(i) without an attribute name; the
\* UTF-16 code units are kept as a sequence of character codes.
Chars(bytes) == [k \in 1..(Len(bytes) \div 2) |-> bytes[2 * k - 1] + 256 * bytes[2 * k]]

ReadName(st) ==
    IF st.err THEN st
    ELSE IF ~CanRead(st.data, st.i, 4) THEN Raise(st)
    ELSE IF ~CanRead(st.data, st.i + 4, 2 * getUInt32(st.data, st.i)) THEN Raise(st)
    ELSE [set(st, "name", ArrV(Chars(getBytes(st.data, st.i + 4,
                                              2 * getUInt32(st.data, st.i)))))
            EXCEPT !.i = @ + 4 + 2 * getUInt32(st.data, st.i)]

\* The sentinel loops of Read_75A6689B.  A loop state is the context, the list
\* built so far and the variable loop; the loop runs while loop = 0.
\* A faulty Step0_75A6689B: a read past the end of the buffer starts over at
\* its beginning.
Step0_75A6689B_Wrap(ls) ==
    IF ~CanRead(ls.st.data, ls.st.i, 8) \/ ~CanRead(ls.st.data, ls.st.i + 8, 4)
    THEN [st |-> [ls.st EXCEPT !.i = 0], lst |-> <<>>, loop |-> 0]
    ELSE [st   |-> [ls.st EXCEPT !.i = @ + 12],
          lst  |-> Append(ls.lst, LstV(<<ArrV(getUInt32A(ls.st.data, ls.st.i, 2)),
                                         ArrV(getUInt16A(ls.st.data, ls.st.i + 8, 2))>>)),
          loop |-> getUInt16(ls.st.data, ls.st.i + 8)]

\* defFmt = 0: a1 (two 32-bit words) and a2 (two 16-bit words); loop = a2[0].
Step0_75A6689B(ls) ==
    IF ~CanRead(ls.st.data, ls.st.i, 8) \/ ~CanRead(ls.st.data, ls.st.i + 8, 4)
    THEN [ls EXCEPT !.st = Raise(@)]
    ELSE [st   |-> [ls.st EXCEPT !.i = @ + 12],
          lst  |-> Append(ls.lst, LstV(<<ArrV(getUInt32A(ls.st.data, ls.st.i, 2)),
                                         ArrV(getUInt16A(ls.st.data, ls.st.i + 8, 2))>>)),
          loop |-> getUInt16(ls.st.data, ls.st.i + 8)]

\* defFmt = 1: u16, a (two 32-bit words), then loop is read.
Step1_75A6689B(ls) ==
    IF ~CanRead(ls.st.data, ls.st.i, 2) \/ ~CanRead(ls.st.data, ls.st.i + 2, 8)
         \/ ~CanRead(ls.st.data, ls.st.i + 10, 2)
    THEN [ls EXCEPT !.st = Raise(@)]
    ELSE [st   |-> [ls.st EXCEPT !.i = @ + 12],
          lst  |-> Append(ls.lst, LstV(<<IntV(getUInt16(ls.st.data, ls.st.i)),
                                         ArrV(getUInt32A(ls.st.data, ls.st.i + 2, 2))>>)),
          loop |-> getUInt16(ls.st.data, ls.st.i + 10)]

\* Before the loop: loop = 0 (defFmt = 0), loop read from the record (defFmt = 1).
Enter0_75A6689B(st) == [st |-> st, lst |-> <<>>, loop |-> 0]

Enter1_75A6689B(st) ==
    IF ~CanRead(st.data, st.i, 2) THEN [st |-> Raise(st), lst |-> <<>>, loop |-> 0]
    ELSE [st |-> [st EXCEPT !.i = @ + 2], lst |-> <<>>, loop |-> getUInt16(st.data, st.i)]

\* while (loop == 0): an exception leaves the loop.
LoopRuns(ls) == ~ls.st.err /\ ls.loop = 0

RECURSIVE Loop0_75A6689B(_)
Loop0_75A6689B(ls) ==
    IF LoopRuns(ls) THEN Loop0_75A6689B(Step0_75A6689B(ls)) ELSE ls

RECURSIVE Loop1_75A6689B(_)
Loop1_75A6689B(ls) ==
    IF LoopRuns(ls) THEN Loop1_75A6689B(Step1_75A6689B(ls)) ELSE ls

\* node.set('lst2', lst) after the loop.
StoreLoop(ls) == IF ls.st.err THEN ls.st ELSE set(ls.st, "lst2", LstV(ls.lst))

\* What follows the branch on defFmt in Read_75A6689B.
Tail_75A6689B(st) ==
    ReadListOfUInt32(ReadCrossRef(ReadUInt16A(st, 5, "a0"), "ref_1"), "lst")

\* defFmt, i = getUInt32(node.data, i) and its branches; an unknown format is
\* logged and the decoder returns.
Format_75A6689B(st) ==
    IF st.err THEN st
    ELSE IF ~CanRead(st.data, st.i, 4) THEN Raise(st)
    ELSE IF getUInt32(st.data, st.i) = 0
    THEN Tail_75A6689B(StoreLoop(Loop0_75A6689B(Enter0_75A6689B(Advance(st, 4)))))
    ELSE IF getUInt32(st.data, st.i) = 1
    THEN Tail_75A6689B(ReadUInt16(
             StoreLoop(Loop1_75A6689B(Enter1_75A6689B(Advance(st, 4)))), "u16_0"))
    ELSE LogError(Advance(st, 4), "unknown type")

\* Read_75A6689B
Read_75A6689B(st, ver) ==
    LET s1 == ReadContentHeader(st)
        s2 == skipBlockSize(s1)
        s3 == ReadSInt32(s2, "s32_0")
        s4 == skipBlockSize(skipBlockSize(skipBlockSize(s3)))
        s5 == ReadListOfRefs(s4, TYPE_CROSS, "lst0")
        s6 == ReadListOfRefs(s5, TYPE_CROSS, "lst1")
        s7 == ReadUInt32(s6, "u32_0")
    IN  Format_75A6689B(s7)

\* Read_1FBB3C01: String.  ReadContentHeader reads a parent reference and the
\* decoder reads a second one after u8_1.
Read_1FBB3C01(st, ver) ==
    LET s0 == [st EXCEPT !.typeName = "String"]
        s1 == ReadContentHeader(s0)
        s2 == skipBlockSize(skipBlockSize(s1))
        s3 == ReadFloat64(s2, "x1")
        s4 == ReadFloat64(s3, "y1")
        s5 == ReadFloat64(s4, "z1")
        s6 == ReadUInt16A(s5, 18, "a1")
        s7 == ReadUInt8(s6, "u8_0")
        s8 == skipBlockSize(s7)
        s9 == IF ver > 2015 THEN ReadFloat64(ReadUInt32(s8, "u32_0"), "f64_0") ELSE s8
        s10 == ReadName(s9)
        s11 == ReadUInt32A(s10, 4, "a2")
        s12 == ReadListOfRefs(s11, TYPE_CROSS, "lst0")
        s13 == ReadListOfRefs(s12, TYPE_CHILD, "lst1")
        s14 == ReadFloat64(s13, "x2")
        s15 == ReadFloat64(s14, "y2")
        s16 == ReadFloat64(s15, "z2")
        s17 == ReadFloat64(s16, "x3")
        s18 == ReadFloat64(s17, "y3")
        s19 == ReadFloat64(s18, "z3")
        s20 == ReadUInt16A(s19, 3, "a3")
        s21 == ReadUInt8(s20, "u8_1")
        s22 == ReadParentRef(s21)
        s23 == ReadListOfRefs(s22, TYPE_CROSS, "lst2")
        s24 == ReadLen32Text16(s23, "txt_0")
        s25 == skipBlockSize(s24)
        s26 == ReadUInt32A(s25, 2, "a0")
    IN  IF ver > 2016 THEN Advance(s26, 17) ELSE s26

\* Names as sequences of character codes: 'PI', 'pi', 'E', 'e'.
Name_PI == <<80, 73>>

Name_pi == <<112, 105>>

Name_E == <<69>>

Name_e == <<101>>

\* importerUtils.translate: the table of parameter names.
translate(name) ==
    IF name = Name_PI THEN Name_pi
    ELSE IF name = Name_E THEN Name_e
    ELSE name

\* logWarning(...)
LogWarning(st, what) == [st EXCEPT !.log = Append(@, what)]

\* A faulty Rename_90874D26: the translated name is logged and not stored.
Rename_90874D26_LogOnly(st) ==
    IF st.err THEN st
    ELSE IF translate(st.attrs["name"][2]) # st.attrs["name"][2]
    THEN LogWarning(st, "translated parameter name")
    ELSE st

\* name = node.name; translatedName = translate(name); a changed name is stored
\* and logged.
Rename_90874D26(st) ==
    IF st.err THEN st
    ELSE IF translate(st.attrs["name"][2]) # st.attrs["name"][2]
    THEN LogWarning(set(st, "name", ArrV(translate(st.attrs["name"][2]))),
                    "translated parameter name")
    ELSE st

\* Read_90874D26: Parameter
Read_90874D26(st, ver) ==
    LET s0 == [st EXCEPT !.typeName = "Parameter"]
        s1 == ReadContentHeader(s0)
        s2 == skipBlockSize(skipBlockSize(skipBlockSize(s1)))
        s3 == ReadName(s2)
        s4 == Rename_90874D26(s3)
        s5 == Advance(s4, 4)
        s6 == ReadChildRef(s5, "refUnit")
        s7 == ReadChildRef(s6, "refValue")
        s8 == ReadFloat64(s7, "valueNominal")
        s9 == ReadFloat64(s8, "valueModel")
        s10 == ReadEnum16(s9, "tolerance")
    IN  ReadSInt16(s10, "u16_0")

\* if (node.name == 'PI'): node.name = 'pi' elif (node.name == 'E'): node.name = 'e'
Rename_0AA8AF46(st) ==
    IF st.err THEN st
    ELSE IF st.attrs["name"][2] = Name_PI THEN set(st, "name", ArrV(Name_pi))
    ELSE IF st.attrs["name"][2] = Name_E THEN set(st, "name", ArrV(Name_e))
    ELSE st

\* Read_0AA8AF46: ParameterConstant
Read_0AA8AF46(st, ver) ==
    LET s0 == [st EXCEPT !.typeName = "ParameterConstant"]
        s1 == Read_Header0(s0)
        s2 == ReadChildRef(s1, "refUnit")
        s3 == ReadFloat64(s2, "value")
        s4 == ReadSInt16(s3, "s16_0")
        s5 == ReadUInt32(s4, "u32_0")
        s6 == ReadName(s5)
    IN  Rename_0AA8AF46(s6)

\* AbstractNode.ReadUInt8A: n bytes.
ReadUInt8A(st, n, name) ==
    IF st.err THEN st
    ELSE IF ~CanRead(st.data, st.i, n) THEN Raise(st)
    ELSE [set(st, name, ArrV(getBytes(st.data, st.i, n))) EXCEPT !.i = @ + n]

\* node.set(name, value) in a decoder.
SetAttr(st, name, v) == IF st.err THEN st ELSE set(st, name, v)

\* if (getFileVersion() > 2011): i = node.ReadUInt32(i, 'u32_1'); node.set('u8_0', 0)
Tail2012_255D7ED7(st, ver) ==
    IF ver > 2011 THEN SetAttr(ReadUInt32(st, "u32_1"), "u8_0", IntV(0)) ELSE st

\* if (getFileVersion() < 2013): i = self.skipBlockSize(i); node.set('u32_0', 0);
\* i = node.ReadUInt8(i, 'u8_0')
Tail2011_255D7ED7(st, ver) ==
    IF ver < 2013
    THEN ReadUInt8(SetAttr(skipBlockSize(st), "u32_0", IntV(0)), "u8_0")
    ELSE st

\* Read_255D7ED7: DerivedPart
Read_255D7ED7(st, ver) ==
    LET s0 == [st EXCEPT !.typeName = "DerivedPart"]
        s1 == ReadContentHeader(s0)
        s2 == skipBlockSize(s1)
        s3 == ReadSInt32(s2, "s32_0")
        s4 == skipBlockSize(skipBlockSize(s3))
        s5 == ReadListOfRefs(s4, TYPE_CROSS, "lst0")
        s6 == ReadUInt32(s5, "u32_0")
        s7 == skipBlockSize(s6)
        s8 == ReadCrossRef(s7, "ref_1")
        s9 == ReadUInt16(s8, "u16_0")
        s10 == ReadUInt16(s9, "u16_1")
        s11 == ReadName(s10)
        s12 == ReadFloat64(s11, "f64_0")
        s13 == ReadUInt8A(s12, 5, "a0")
        s14 == Tail2012_255D7ED7(s13, ver)
    IN  Tail2011_255D7ED7(s14, ver)

\* ----------------------------------------------------------- segment reader
VARIABLES
    fileVersion,   \* getFileVersion()
    buffer,        \* the segment's stream (bytes)
    sec,           \* the node table: the declared size of each record, in stream order
    unsetRaises,   \* whether reading the never-assigned self.type raises
    rtype,         \* DCReader.type (self.type)
    run,           \* the decode in progress: the r-th segment read
    seg,           \* seg[r]: the segment object of decode r
    file,          \* the input file: whether it is a compound file, its release, its streams
    entry,         \* the entry point called by the host: "insert" or "open"
    infileBound,   \* whether the module's namespace binds the name infile
    pc,            \* the position of the import
    caller,        \* the function whose call of ReadFile is in progress
    list,          \* ReadFile's read order
    counter,       \* ReadFile's counter: the place in list of the stream being read
    reads,         \* the streams handed to ReadElement by the ReadFile call in progress
    calls,         \* the ReadFile calls that ended, with how they ended
    newDocs,       \* the number of documents made by FreeCAD.newDocument
    model3d,       \* whether create3dModel was called
    errors,        \* the messages given to logError by ReadFile
    env,           \* the host: whether canImport() holds, whether create3dModel raises
    comment,       \* doc.Comment of the document that is read into, as its pieces
    probe          \* a single call of a function of the reader: its arguments and its result

segVars == <<fileVersion, buffer, sec, unsetRaises, rtype, run, seg>>

impVars == <<file, entry, infileBound, pc, caller, list, counter, reads, calls,
             newDocs, model3d, errors, env, comment>>

vars == <<segVars, impVars, probe>>

\* The type table of the segment: type byte b names the UUID whose time_low is
\* SegTypes[b], printed with %08X; a byte outside the table is no UUID.
SegTypes ==
    <<"F645595C", "CE52DF3A", "452121B6", "6CA92D02", "90874D16", "90874D46",
      "19F763CB", "0BADC0DE", "2B48A42B", "90874D63",
      "75A6689B", "1FBB3C01", "90874D26", "0AA8AF46">>

HexDigit == <<"0", "1", "2", "3", "4", "5", "6", "7", "8", "9",
              "A", "B", "C", "D", "E", "F">>

\* '%08X' % typeID for a one-byte type id.
Hex8(b) == "000000" \o HexDigit[(b \div 16) + 1] \o HexDigit[(b % 16) + 1]

\* importerSegment.getNodeType(nodeTypeID, seg)
IsUUIDType(b) == b \in 1..Len(SegTypes)

\* A faulty scan: the record end stays where the declared size puts it.
ScanMarker_Stay(data, i, size) == i

\* The forward scan of setNodeData from position i: the first position whose
\* 32-bit marker equals size, or the buffer's length; -1 when a marker read
\* leaves the buffer (getUInt32 raises).
RECURSIVE ScanMarker(_, _, _)
ScanMarker(data, i, size) ==
    IF ~CanRead(data, i, 4) THEN -1
    ELSE IF getUInt32(data, i) # size /\ i < Len(data)
         THEN ScanMarker(data, i + 1, size)
         ELSE i

\* data[a:b] of Python: clipped to the buffer.
Slice(data, a, b) ==
    SubSeq(data, a + 1, IF b > Len(data) THEN Len(data) ELSE b)

\* DCReader.setNodeData(node, data, seg): the node with its type, size and data
\* set; raised says that a read left the buffer.
setNodeData(node, data) ==
    LET offset == node.offset
    IN  IF ~CanRead(data, offset - 4, 1) THEN [node |-> node, raised |-> TRUE]
        ELSE
        LET nodeTypeID == getUInt8(data, offset - 4)
        IN  IF IsUUIDType(nodeTypeID)
            THEN LET id == SegTypes[nodeTypeID]
                     i  == offset + node.size
                 IN  IF ~CanRead(data, i, 4) THEN [node |-> node, raised |-> TRUE]
                     ELSE IF getUInt32(data, i) # node.size
                             /\ id \in {"2B48A42B", "90874D63"}
                     THEN LET e == ScanMarker(data, i, node.size)
                          IN  IF e < 0
                              THEN [node |-> [node EXCEPT !.typeID = id, !.typeName = id],
                                    raised |-> TRUE]
                              ELSE [node |-> [node EXCEPT !.typeID = id, !.typeName = id,
                                                !.size = e - offset,
                                                !.data = Slice(data, offset, e)],
                                    raised |-> FALSE]
                     ELSE [node |-> [node EXCEPT !.typeID = id, !.typeName = id,
                                       !.data = Slice(data, offset, offset + node.size)],
                           raised |-> FALSE]
            ELSE [node |-> [node EXCEPT !.typeID = Hex8(nodeTypeID),
                              !.typeName = Hex8(nodeTypeID),
                              !.data = Slice(data, offset, offset + node.size)],
                  raised |-> FALSE]

\* DCReader.createNewNode / SegmentReader.newNode: a DCNode with its place in the
\* stream and nothing decoded.
createNewNode(index, offset, size) ==
    [index |-> index, offset |-> offset, size |-> size,
     typeID |-> "", typeName |-> "", data |-> <<>>,
     attrs |-> EmptyAttrs, childIndexes |-> <<>>,
     ret |-> -1, known |-> FALSE]

\* The keys with a Read_<key> method among the type keys of the model (the
\* methods dumpNodeDict lists).
DecoderKeys ==
    {"F645595C", "CE52DF3A", "452121B6", "6CA92D02", "90874D16", "90874D46",
     "19F763CB", "75A6689B", "1FBB3C01", "90874D26", "0AA8AF46"}

\* A faulty dispatch: every key is taken to have a decoder.
HasDecoder_Any(typeName) == TRUE

HasDecoder(typeName) == typeName \in DecoderKeys

\* getattr(self, 'Read_%s' % typeName)(node): a missing method raises.
Decode(st, ver) ==
    CASE st.typeName = "F645595C" -> Read_F645595C(st, ver)
      [] st.typeName = "CE52DF3A" -> Read_CE52DF3A(st, ver)
      [] st.typeName = "452121B6" -> Read_452121B6(st, ver)
      [] st.typeName = "6CA92D02" -> Read_6CA92D02(st, ver)
      [] st.typeName = "90874D16" -> Read_90874D16(st, ver)
      [] st.typeName = "90874D46" -> Read_90874D46(st, ver)
      [] st.typeName = "19F763CB" -> Read_19F763CB(st, ver)
      [] st.typeName = "75A6689B" -> Read_75A6689B(st, ver)
      [] st.typeName = "1FBB3C01" -> Read_1FBB3C01(st, ver)
      [] st.typeName = "90874D26" -> Read_90874D26(st, ver)
      [] st.typeName = "0AA8AF46" -> Read_0AA8AF46(st, ver)
      [] OTHER -> Raise(st)

\* The execution context of a decoder on a node.
Context(node, type, raises) ==
    [data |-> node.data, i |-> 0, err |-> FALSE, attrs |-> node.attrs,
     childIndexes |-> node.childIndexes, typeName |-> node.typeName,
     rtype |-> type, unsetRaises |-> raises, log |-> <<>>]

\* SegmentReader: dispatch on the node's type key; a key with no decoder leaves
\* the node as setNodeData made it.
Decoded(node, st) ==
    [node |-> [node EXCEPT !.attrs = st.attrs,
                           !.childIndexes = st.childIndexes,
                           !.typeName = st.typeName,
                           !.ret = IF st.err THEN -1 ELSE st.i,
                           !.known = TRUE],
     raised |-> st.err, rtype |-> st.rtype, log |-> st.log]

ReadBlock(node, ver, type, raises) ==
    IF HasDecoder(node.typeName)
    THEN Decoded(node, Decode(Context(node, type, raises), ver))
    ELSE [node |-> node, raised |-> FALSE, rtype |-> type, log |-> <<>>]

\* A faulty cross-check: a returned offset that differs from the record's size
\* goes unreported.
CrossCheck_Silent(node) == <<>>

\* The cross-check of the offset a decoder returned against the size of the
\* record: a difference is logged.
CrossCheck(node) ==
    IF node.known /\ node.ret # Len(node.data) THEN <<"size mismatch">> ELSE <<>>

\* A faulty resolving pass: the index is taken for the node without a lookup.
ResolveRefs_Unchecked(refs, count) ==
    [k \in DOMAIN refs |-> [refs[k] EXCEPT !.node = refs[k].index]]

\* The resolving pass on one queue: a reference whose index is in the segment's
\* node index gets its node; the others are left as they are.
ResolveRefs(refs, count) ==
    [k \in DOMAIN refs |->
        IF refs[k].index \in 1..count
        THEN [refs[k] EXCEPT !.node = refs[k].index]
        ELSE refs[k]]

NewSegment ==
    [phase |-> "Init", nodes |-> <<>>, pos |-> 0, count |-> 0,
     log |-> <<>>, failedAt |-> 0]

\* ReadSegmentData is called for decode r.
Begin ==
    /\ pc = "segment"
    /\ seg[run].phase = "Init"
    /\ seg' = [seg EXCEPT ![run].phase = "Indexing"]
    /\ UNCHANGED <<fileVersion, buffer, sec, unsetRaises, rtype, run, impVars, probe>>

\* The node table is read: the number of records.
Index ==
    /\ pc = "segment"
    /\ seg[run].phase = "Indexing"
    /\ seg' = [seg EXCEPT ![run].phase = "Decoding", ![run].count = Len(sec),
                          ![run].pos = 0]
    /\ UNCHANGED <<fileVersion, buffer, sec, unsetRaises, rtype, run, impVars, probe>>

\* The next record of the node table: newNode (createNewNode, setNodeData), the
\* dispatch to its decoder, the cross-check of the returned offset against the
\* record's size, and the step over the record's trailing size marker.  An
\* exception ends the decode of the segment.
DecodeNode ==
    /\ pc = "segment"
    /\ seg[run].phase = "Decoding"
    /\ Len(seg[run].nodes) < seg[run].count
    /\ \E k \in {Len(seg[run].nodes) + 1} :
       \E sn \in {setNodeData(createNewNode(k, seg[run].pos + 4, sec[k]), buffer)} :
       \E rb \in {ReadBlock(sn.node, fileVersion, rtype, unsetRaises)} :
           IF sn.raised
           THEN /\ seg' = [seg EXCEPT ![run].phase = "Failed", ![run].failedAt = k]
                /\ rtype' = rtype
           ELSE IF rb.raised
           THEN /\ seg' = [seg EXCEPT ![run].phase = "Failed", ![run].failedAt = k,
                                      ![run].nodes = Append(@, rb.node),
                                      ![run].log = @ \o rb.log]
                /\ rtype' = rb.rtype
           ELSE /\ seg' = [seg EXCEPT
                             ![run].nodes = Append(@, rb.node),
                             ![run].pos = rb.node.offset + rb.node.size + 4,
                             ![run].log = @ \o rb.log \o CrossCheck(rb.node)]
                /\ rtype' = rb.rtype
    /\ UNCHANGED <<fileVersion, buffer, sec, unsetRaises, run, impVars, probe>>

\* A faulty BeginResolve: the pass starts while records are left to decode.
BeginResolve_Early ==
    /\ pc = "segment"
    /\ seg[run].phase = "Decoding"
    /\ seg' = [seg EXCEPT ![run].phase = "Resolving"]
    /\ UNCHANGED <<fileVersion, buffer, sec, unsetRaises, rtype, run, impVars, probe>>

\* The last record of the node table has been decoded.
BeginResolve ==
    /\ pc = "segment"
    /\ seg[run].phase = "Decoding"
    /\ Len(seg[run].nodes) = seg[run].count
    /\ seg' = [seg EXCEPT ![run].phase = "Resolving"]
    /\ UNCHANGED <<fileVersion, buffer, sec, unsetRaises, rtype, run, impVars, probe>>

\* The resolving pass over every node's queue of references.
Resolve ==
    /\ pc = "segment"
    /\ seg[run].phase = "Resolving"
    /\ seg' = [seg EXCEPT
                 ![run].phase = "Done",
                 ![run].nodes =
                     [k \in DOMAIN @ |->
                        [@[k] EXCEPT !.childIndexes =
                                         ResolveRefs(@, seg[run].count)]]]
    /\ UNCHANGED <<fileVersion, buffer, sec, unsetRaises, rtype, run, impVars, probe>>

\* The same stream is decoded again: by the reader that decoded it (its
\* document kind is kept) or by a new DCReader.
Redecode ==
    /\ pc = "segment"
    /\ run = 1
    /\ seg[1].phase \in {"Done", "Failed"}
    /\ run' = 2
    /\ \E reuse \in BOOLEAN : rtype' = IF reuse THEN rtype ELSE DOC_UNSET
    /\ UNCHANGED <<fileVersion, buffer, sec, unsetRaises, seg, impVars, probe>>

\* ------------------------------------------------------------ input records
\* The streams the reader is run on are built from records written out field by
\* field, as a file of the given release holds them.
LE16(x) == <<x % 256, (x \div 256) % 256>>

LE32(x) == <<x % 256, (x \div 256) % 256, (x \div 65536) % 256, (x \div 16777216) % 256>>

Zeros(n) == [k \in 1..n |-> 0]

\* A reference to the node with the given index (0: no node).
RefBytes(index) == LE16(index) \o LE16(0)

\* An index no node of a segment has.
Dangling == MaxNodes + 7

Header0Bytes == LE32(1) \o LE16(0) \o Zeros(4)

ContentHeaderBytes(label, flags, parent, index) ==
    Header0Bytes \o RefBytes(label) \o LE32(flags) \o Zeros(4)
      \o RefBytes(parent) \o LE32(index)

Sketch2DHeaderBytes(sketch) ==
    ContentHeaderBytes(0, 1024, 1, 7) \o Zeros(12) \o LE32(0) \o Zeros(4)
      \o RefBytes(sketch)

SketchLineBytes(ver) ==
    Sketch2DHeaderBytes(2) \o Zeros(4)
      \o LE32(2) \o RefBytes(1) \o RefBytes(Dangling) \o Zeros(4)
      \o (IF ver > 2012 THEN LE32(0) ELSE <<>>)
      \o Zeros(32)

\* A ModelerTxnMgr record as a part file holds it.
TxnMgrBytes(ver) ==
    Header0Bytes \o RefBytes(2) \o LE32(0) \o Zeros(4) \o RefBytes(1) \o RefBytes(0)
      \o LE32(5) \o (IF ver > 2011 THEN Zeros(4) ELSE <<>>)
      \o LE32(6) \o LE32(1) \o LE32(3) \o RefBytes(2) \o LE32(7)

\* A 6CA92D02 record as a part file holds it.
Bytes_6CA92D02(ver) ==
    ContentHeaderBytes(1, 8388608, 0, 3) \o Zeros(4) \o <<255, 255, 255, 255>> \o Zeros(8)
      \o <<1>> \o LE32(2) \o <<3>>
      \o Zeros(4) \o LE32(4) \o Zeros(4) \o LE32(5) \o Zeros(4)
      \o LE32(1) \o LE32(9) \o LE32(0) \o <<1>> \o Zeros(4)
      \o RefBytes(1) \o RefBytes(Dangling) \o LE32(6) \o <<2>>

\* A 6CA92D02 record as an assembly file holds it.
Bytes_6CA92D02_Asm ==
    ContentHeaderBytes(1, 0, 0, 3) \o Zeros(4) \o LE32(1) \o Zeros(8)
      \o <<1>> \o LE32(2) \o <<3>> \o LE32(1) \o <<65, 0>>

DocumentPartBytes ==
    Header0Bytes \o RefBytes(0) \o LE32(1) \o Zeros(4) \o Zeros(16)
      \o LE32(1) \o <<80, 0>> \o LE32(1) \o RefBytes(2)
      \o Zeros(12) \o Zeros(4) \o RefBytes(1) \o RefBytes(2) \o Zeros(4)
      \o RefBytes(0) \o RefBytes(0) \o RefBytes(1) \o RefBytes(2) \o Zeros(4)
      \o RefBytes(1) \o Zeros(4) \o RefBytes(0) \o LE32(3) \o RefBytes(0) \o Zeros(4)
      \o RefBytes(Dangling) \o LE32(0) \o Zeros(8) \o RefBytes(1)

DocumentAssemblyBytes(ver) ==
    Header0Bytes \o RefBytes(0) \o LE32(1) \o Zeros(4) \o Zeros(16)
      \o LE32(0) \o LE32(1) \o RefBytes(1) \o Zeros(12) \o Zeros(4)
      \o RefBytes(2) \o RefBytes(0) \o Zeros(4) \o RefBytes(0) \o LE32(2)
      \o RefBytes(0) \o RefBytes(1) \o Zeros(4) \o Zeros(8) \o RefBytes(0)
      \o LE32(3) \o RefBytes(0) \o Zeros(4) \o LE32(4) \o RefBytes(0) \o LE32(5)
      \o LE32(0) \o RefBytes(0) \o RefBytes(Dangling) \o RefBytes(0)
      \o (IF ver > 2012 THEN RefBytes(1) ELSE <<>>)

\* A 19F763CB record with one block of the given type.
Bytes_19F763CB(typ) ==
    Header0Bytes \o Zeros(8) \o Zeros(4) \o LE32(1) \o LE32(1)
      \o LE32(typ) \o Zeros(48) \o RefBytes(1) \o Zeros(24)

\* The records a stream of the model is made of: the type byte and the payload.
Catalogue(ver) ==
    { [type |-> 1, payload |-> Zeros(3)],
      [type |-> 2, payload |-> SketchLineBytes(ver)],
      \* a SketchLine whose record ends one byte early
      [type |-> 2, payload |-> SubSeq(SketchLineBytes(ver), 1, Len(SketchLineBytes(ver)) - 1)],
      [type |-> 3, payload |-> TxnMgrBytes(ver)],
      [type |-> 4, payload |-> Bytes_6CA92D02(ver)],
      [type |-> 4, payload |-> Bytes_6CA92D02_Asm],
      [type |-> 5, payload |-> DocumentPartBytes],
      [type |-> 6, payload |-> DocumentAssemblyBytes(ver)],
      [type |-> 7, payload |-> Bytes_19F763CB(23)],
      \* a block type the decoder does not know
      [type |-> 7, payload |-> Bytes_19F763CB(153)],
      \* a type key without a decoder, and a type byte that names no UUID
      [type |-> 8, payload |-> Zeros(5)],
      [type |-> 200, payload |-> Zeros(2)] }

\* The stream of a list of records: per record the type byte (4 bytes), the
\* payload and the trailing 32-bit size.
RECURSIVE StreamOf(_)
StreamOf(recs) ==
    IF recs = <<>> THEN <<>>
    ELSE <<Head(recs).type, 0, 0, 0>> \o Head(recs).payload
           \o LE32(Len(Head(recs).payload)) \o StreamOf(Tail(recs))

SizesOf(recs) == [k \in DOMAIN recs |-> Len(recs[k].payload)]

SeqsUpTo(S, n) == UNION { [1..m -> S] : m \in 0..n }

\* A text: its length in characters and its UTF-16 code units.
RECURSIVE CharBytes(_)
CharBytes(chars) ==
    IF chars = <<>> THEN <<>> ELSE LE16(Head(chars)) \o CharBytes(Tail(chars))

Text16Bytes(chars) == LE32(Len(chars)) \o CharBytes(chars)

\* A parameter name that the table of translate does not hold: 'd0'.
Name_d0 == <<100, 48>>

\* A 75A6689B record up to defFmt, and what follows the list of each format.
Head_75A6689B(fmt) ==
    ContentHeaderBytes(0, 0, 1, 4) \o Zeros(4) \o LE32(2) \o Zeros(12)
      \o LE32(1) \o RefBytes(1) \o LE32(0) \o LE32(6) \o LE32(fmt)

Tail_75A6689B_Bytes == Zeros(10) \o RefBytes(2) \o LE32(1) \o LE32(9)

\* defFmt = 0: two entries, the second one with a2[0] # 0.
Bytes_75A6689B_Fmt0 ==
    Head_75A6689B(0) \o LE32(3) \o LE32(4) \o LE16(0) \o LE16(5)
      \o LE32(5) \o LE32(6) \o LE16(1) \o LE16(0) \o Tail_75A6689B_Bytes

\* defFmt = 1: loop = 0, one entry followed by loop = 0, one followed by loop = 1.
Bytes_75A6689B_Fmt1 ==
    Head_75A6689B(1) \o LE16(0) \o LE16(7) \o LE32(1) \o LE32(2) \o LE16(0)
      \o LE16(8) \o LE32(3) \o LE32(4) \o LE16(1) \o LE16(9) \o Tail_75A6689B_Bytes

\* A format the decoder does not know.
Bytes_75A6689B_Fmt7 == Head_75A6689B(7) \o Zeros(6)

\* defFmt = 0 and no entry with a2[0] # 0 up to the end of the record.
Bytes_75A6689B_NoSentinel == Head_75A6689B(0) \o Zeros(30)

\* A String record with the two parent references it holds.
StringBytes(ver, parent1, parent2) ==
    ContentHeaderBytes(0, 0, parent1, 1) \o Zeros(8) \o Zeros(24) \o Zeros(36) \o <<1>>
      \o Zeros(4) \o (IF ver > 2015 THEN Zeros(12) ELSE <<>>)
      \o Text16Bytes(<<65>>) \o Zeros(16) \o LE32(0) \o LE32(0) \o Zeros(48)
      \o Zeros(6) \o <<2>> \o RefBytes(parent2) \o LE32(0) \o LE32(0) \o Zeros(4)
      \o Zeros(8) \o (IF ver > 2016 THEN Zeros(17) ELSE <<>>)

ParameterBytes(name) ==
    ContentHeaderBytes(0, 0, 1, 2) \o Zeros(12) \o Text16Bytes(name) \o Zeros(4)
      \o RefBytes(1) \o RefBytes(2) \o Zeros(16) \o LE16(1) \o LE16(0)

ParameterConstantBytes(name) ==
    Header0Bytes \o RefBytes(1) \o Zeros(8) \o LE16(0) \o LE32(3) \o Text16Bytes(name)

\* The records of the streams on which the decoders of lists, names and parent
\* references are run.
Catalogue2(ver) ==
    { [type |-> 11, payload |-> Bytes_75A6689B_Fmt0],
      [type |-> 11, payload |-> Bytes_75A6689B_Fmt1],
      [type |-> 11, payload |-> Bytes_75A6689B_Fmt7],
      [type |-> 11, payload |-> Bytes_75A6689B_NoSentinel],
      [type |-> 12, payload |-> StringBytes(ver, 1, 2)],
      [type |-> 12, payload |-> StringBytes(ver, 1, 0)],
      [type |-> 13, payload |-> ParameterBytes(Name_PI)],
      [type |-> 13, payload |-> ParameterBytes(Name_d0)],
      [type |-> 14, payload |-> ParameterConstantBytes(Name_PI)],
      [type |-> 14, payload |-> ParameterConstantBytes(Name_E)],
      [type |-> 14, payload |-> ParameterConstantBytes(Name_d0)],
      [type |-> 7, payload |-> Bytes_19F763CB(153)] }

\* ------------------------------------------------------------------ import
\* A stream name is a list of components; a component is the prefix the code
\* tests with startswith and the rest of the name.
Nm(pre, rest) == <<pre, rest>>

RSeStorage == Nm("RSe", "Storage")

RSeDb == Nm("RSe", "Db")

\* fname[-1]
Last(fname) == fname[Len(fname)]

\* A stream of the file: its name, its bytes, and for a segment's M stream the
\* node table its metadata holds.
Stream(fname, data, table) == [fname |-> fname, data |-> data, table |-> table]

\* ole.listdir(streams=True, storages=False)
Elements(f) == [k \in DOMAIN f.streams |-> f.streams[k].fname]

\* A faulty InsertAt: the element is put at the end of the list.
InsertAt_End(l, k, x) == Append(l, x)

\* list.insert(k, x)
InsertAt(l, k, x) == SubSeq(l, 1, k) \o <<x>> \o SubSeq(l, k + 1, Len(l))

\* The loop of ReadFile that builds its read order from the first k elements:
\* the list and the place after the RSeDb streams.
RECURSIVE ReadOrderOf(_, _)
\* A faulty ReadOrderAdd: first is not moved behind an RSeDb stream.
ReadOrderAdd_FirstStays(acc, fname) ==
    IF Len(fname) = 1 THEN [acc EXCEPT !.list = Append(@, fname)]
    ELSE IF Last(fname)[1] = "RSe"
    THEN [acc EXCEPT !.list = InsertAt(@, acc.first, fname)]
    ELSE IF Last(fname)[1] # "B" THEN [acc EXCEPT !.list = Append(@, fname)]
    ELSE acc

ReadOrderAdd(acc, fname) ==
    IF Len(fname) = 1 THEN [acc EXCEPT !.list = Append(@, fname)]
    ELSE IF Last(fname)[1] = "RSe"
    THEN [list  |-> InsertAt(acc.list, acc.first, fname),
          first |-> IF Last(fname) = RSeDb THEN acc.first + 1 ELSE acc.first]
    ELSE IF Last(fname)[1] # "B" THEN [acc EXCEPT !.list = Append(@, fname)]
    ELSE acc

ReadOrderOf(elements, k) ==
    IF k = 0 THEN [list |-> <<>>, first |-> 0]
    ELSE ReadOrderAdd(ReadOrderOf(elements, k - 1), elements[k])

ReadOrder(elements) == ReadOrderOf(elements, Len(elements)).list

\* importerUtils.isEmbeddings(fname)
isEmbeddings(fname) == \E k \in DOMAIN fname : fname[k] = Nm("RSe", "Embeddings")

\* The stream with the given name: its place in the file, 0 when there is none.
FindStream(f, fname) ==
    IF \E k \in DOMAIN f.streams : f.streams[k].fname = fname
    THEN CHOOSE k \in DOMAIN f.streams : f.streams[k].fname = fname
    ELSE 0

\* A faulty NameB: the name of the M stream itself.
NameB_Same(fname) == fname

\* fnameB of ReadElement: the name with 'B' + name[1:] as its last component.
NameB(fname) == [fname EXCEPT ![Len(fname)] = Nm("B", Last(fname)[2])]

\* A faulty TopLevelReader: the test of readProperties is made for every
\* top-level stream.
TopLevelReader_AllNeedProperties(fname, readProperties) ==
    IF ~readProperties THEN "none"
    ELSE IF Last(fname)[1] = "x05" THEN "getproperties"
    ELSE IF Last(fname) = Nm("", "UFRxDoc") THEN "ReadUFRxDoc"
    ELSE IF Last(fname) = Nm("", "Protein") THEN "ReadProtein"
    ELSE "ReadIgnorable"

\* The branch of ReadElement for a stream at the top level of the file.
TopLevelReader(fname, readProperties) ==
    IF Last(fname)[1] = "x05"
    THEN IF readProperties THEN "getproperties" ELSE "none"
    ELSE IF Last(fname) = Nm("", "UFRxDoc") THEN "ReadUFRxDoc"
    ELSE IF Last(fname) = Nm("", "Protein") THEN "ReadProtein"
    ELSE "ReadIgnorable"

\* The branch of ReadElement a stream takes: the reader it is handed to.
Reader(fname, data, readProperties) ==
    IF Len(data) = 0 THEN "none"
    ELSE IF Len(fname) = 1 THEN TopLevelReader(fname, readProperties)
    ELSE IF fname[1] = Nm("", "CacheGraphics") THEN "skip"
    ELSE IF fname[1] = RSeStorage
    THEN IF isEmbeddings(fname)
         THEN IF Last(fname)[1] = "x05" THEN "skip"
              ELSE IF Last(fname) = Nm("x01", "Ole") THEN "skip"
              ELSE IF Last(fname) = Nm("x01", "CompObj") THEN "ReadRSeEmbeddingsCompObj"
              ELSE IF Last(fname) = Nm("", "DatabaseInterfaces")
                   THEN "ReadRSeEmbeddingsDatabaseInterfaces"
              ELSE IF Last(fname) = Nm("", "Contents") THEN "skip"
              ELSE IF Last(fname) = Nm("", "Workbook") THEN "ReadWorkbook"
              ELSE "ReadIgnorable"
         ELSE IF Last(fname) = RSeDb THEN "ReadRSeDb"
              ELSE IF Last(fname) = Nm("RSe", "SegInfo") THEN "ReadRSeSegInfo"
              ELSE IF Last(fname) = Nm("RSe", "DbRevisionInfo") THEN "ReadRSeDbRevisionInfo"
              ELSE IF Last(fname)[1] = "B" THEN "skip"
              ELSE IF Last(fname)[1] = "M" THEN "ReadRSeMetaDataM"
              ELSE "ReadIgnorable"
    ELSE "ReadIgnorable"

\* How a call of ReadFile ended.
Ended(result) == Append(calls, [by |-> caller, result |-> result, reads |-> reads])

\* insert(filename, docname): when canImport() holds, ReadFile(doc, False) is
\* called inside the try; otherwise insert returns.
insert ==
    /\ pc = "start"
    /\ entry = "insert"
    /\ IF env.canImport
       THEN /\ caller' = "insert"
            /\ pc' = "ReadFile"
       ELSE /\ pc' = "done"
            /\ UNCHANGED caller
    /\ UNCHANGED <<segVars, file, entry, infileBound, list, counter, reads, calls,
                   newDocs, model3d, errors, env, comment, probe>>

\* open(filename): called by the host, or by insert's except clause after any
\* exception; a new document is made and ReadFile(doc, True) is called.
open ==
    /\ \/ pc = "start" /\ entry = "open"
       \/ pc = "raised" /\ caller = "insert"
    /\ IF env.canImport
       THEN /\ caller' = "open"
            /\ newDocs' = newDocs + 1
            /\ comment' = <<>>
            /\ reads' = <<>>
            /\ run' = 0
            /\ seg' = [r \in 1..2 |-> NewSegment]
            /\ pc' = "ReadFile"
       ELSE /\ pc' = "done"
            /\ UNCHANGED <<caller, newDocs, comment, reads, run, seg>>
    /\ UNCHANGED <<fileVersion, buffer, sec, unsetRaises, rtype, file, entry,
                   infileBound, list, counter, calls, model3d, errors, env, probe>>

\* A faulty ReadFile: setFileVersion is left out.
ReadFile_VersionUnset ==
    /\ pc = "ReadFile"
    /\ IF file.ole
       THEN /\ fileVersion' = fileVersion
            /\ list' = ReadOrder(Elements(file))
            /\ counter' = 1
            /\ pc' = "loop"
            /\ UNCHANGED <<calls, errors>>
       ELSE IF infileBound
       THEN /\ errors' = Append(errors, "not a valid Autodesk Inventor file")
            /\ calls' = Ended("False")
            /\ pc' = "done"
            /\ UNCHANGED <<fileVersion, list, counter>>
       ELSE /\ calls' = Ended("raised")
            /\ pc' = "raised"
            /\ UNCHANGED <<fileVersion, list, counter, errors>>
    /\ UNCHANGED <<buffer, sec, unsetRaises, rtype, run, seg, file, entry, infileBound,
                   caller, reads, newDocs, model3d, env, comment, probe>>

\* ReadFile up to its loop: the test for a compound file, setFileVersion and the
\* read order; for another file logError('... %s ...' % (infile)) and return False,
\* after which the caller returns.  The name infile is bound by no statement of
\* the module: evaluating it raises NameError unless a star import binds it.
ReadFile ==
    /\ pc = "ReadFile"
    /\ IF file.ole
       THEN /\ fileVersion' = file.version
            /\ list' = ReadOrder(Elements(file))
            /\ counter' = 1
            /\ pc' = "loop"
            /\ UNCHANGED <<calls, errors>>
       ELSE IF infileBound
       THEN /\ errors' = Append(errors, "not a valid Autodesk Inventor file")
            /\ calls' = Ended("False")
            /\ pc' = "done"
            /\ UNCHANGED <<fileVersion, list, counter>>
       ELSE /\ calls' = Ended("raised")
            /\ pc' = "raised"
            /\ UNCHANGED <<fileVersion, list, counter, errors>>
    /\ UNCHANGED <<buffer, sec, unsetRaises, rtype, run, seg, file, entry, infileBound,
                   caller, reads, newDocs, model3d, env, comment, probe>>

\* ReadElement(ole, fname, doc, counter, readProperties) for the next stream of
\* the read order.  A segment's M stream gives the node table, its B stream the
\* bytes, and the segment reader is started on them; any other stream is read
\* and ReadElement returns.
ReadElement ==
    /\ pc = "loop"
    /\ counter <= Len(list)
    /\ \E fname \in {list[counter]} :
       \E how \in {Reader(fname, file.streams[FindStream(file, fname)].data,
                          caller = "open")} :
          /\ reads' = Append(reads, [fname |-> fname, reader |-> how])
          /\ IF how = "ReadRSeMetaDataM"
             THEN IF FindStream(file, NameB(fname)) = 0
                  \* ole.openstream(fnameB) raises
                  THEN /\ pc' = "raised"
                       /\ calls' = Append(calls, [by |-> caller, result |-> "raised",
                                                  reads |-> reads'])
                       /\ UNCHANGED <<buffer, sec, rtype, run, counter>>
                  ELSE /\ sec' = file.streams[FindStream(file, fname)].table
                       /\ buffer' = file.streams[FindStream(file, NameB(fname))].data
                       /\ rtype' = DOC_UNSET
                       /\ run' = run + 1
                       /\ pc' = "segment"
                       /\ UNCHANGED <<calls, counter>>
             ELSE /\ counter' = counter + 1
                  /\ UNCHANGED <<buffer, sec, rtype, run, pc, calls>>
    /\ UNCHANGED <<fileVersion, unsetRaises, seg, file, entry, infileBound, caller,
                   list, newDocs, model3d, errors, env, comment, probe>>

\* A faulty ElementReturn: the reader returns once its records are decoded and
\* leaves the resolving pass for later.
ElementReturn_BeforeResolve ==
    /\ pc = "segment"
    /\ seg[run].phase = "Resolving"
    /\ counter' = counter + 1
    /\ pc' = "loop"
    /\ UNCHANGED <<segVars, file, entry, infileBound, caller, list, reads, calls,
                   newDocs, model3d, errors, env, comment, probe>>

\* The segment reader is done: ReadElement returns and ReadFile's loop goes on.
ElementReturn ==
    /\ pc = "segment"
    /\ seg[run].phase = "Done"
    /\ counter' = counter + 1
    /\ pc' = "loop"
    /\ UNCHANGED <<segVars, file, entry, infileBound, caller, list, reads, calls,
                   newDocs, model3d, errors, env, comment, probe>>

\* A faulty ElementRaise: the exception is caught in the loop, which goes on with
\* the next stream.
ElementRaise_SkipSegment ==
    /\ pc = "segment"
    /\ seg[run].phase = "Failed"
    /\ counter' = counter + 1
    /\ pc' = "loop"
    /\ UNCHANGED <<segVars, file, entry, infileBound, caller, list, reads, calls,
                   newDocs, model3d, errors, env, comment, probe>>

\* The segment reader raised: ReadElement has no handler and ReadFile's loop has
\* none, the exception leaves ReadFile.
ElementRaise ==
    /\ pc = "segment"
    /\ seg[run].phase = "Failed"
    /\ calls' = Ended("raised")
    /\ pc' = "raised"
    /\ UNCHANGED <<segVars, file, entry, infileBound, caller, list, counter, reads,
                   newDocs, model3d, errors, env, comment, probe>>

\* '# %s: read from %s' % (now.strftime(...), getInventorFile()): the line
\* that tells when and from which file the document was read.
ReadFromLine == "# <timestamp>: read from <file>"

\* if (len(doc.Comment) > 0): doc.Comment += '\n'
\* A comment is the sequence of its pieces.
AddNewline(c) == IF Len(c) > 0 THEN Append(c, "\n") ELSE c

\* doc.Comment = '# %s: read from %s' % (...): an assignment, the value
\* that doc.Comment had is replaced.
AssignComment(c, line) == <<line>>

\* The end of ReadFile: the two statements on doc.Comment, in their order.
StampComment(c) == AssignComment(AddNewline(c), ReadFromLine)

\* The loop of ReadFile has ended: ole.close(), return True, and the caller
\* calls create3dModel, which creates the 3D model or raises.
ReadFileReturn ==
    /\ pc = "loop"
    /\ counter > Len(list)
    /\ comment' = StampComment(comment)
    /\ calls' = Ended("True")
    /\ model3d' = ~env.modelRaises
    /\ pc' = IF env.modelRaises THEN "raised" ELSE "done"
    /\ UNCHANGED <<segVars, file, entry, infileBound, caller, list, counter, reads,
                   newDocs, errors, env, probe>>

\* A faulty Propagate: the exception leaves insert as it leaves open.
Propagate_FromInsert ==
    /\ pc = "raised"
    /\ pc' = "crashed"
    /\ UNCHANGED <<segVars, file, entry, infileBound, caller, list, counter, reads,
                   calls, newDocs, model3d, errors, env, comment, probe>>

\* An exception leaves open: nothing in the module handles it.
Propagate ==
    /\ pc = "raised"
    /\ caller = "open"
    /\ pc' = "crashed"
    /\ UNCHANGED <<segVars, file, entry, infileBound, caller, list, counter, reads,
                   calls, newDocs, model3d, errors, env, comment, probe>>

\* The records of the segments of an imported file.
ImportCatalogue(ver) ==
    { [type |-> 1, payload |-> Zeros(3)],
      [type |-> 2, payload |-> SketchLineBytes(ver)],
      [type |-> 2, payload |-> SubSeq(SketchLineBytes(ver), 1, Len(SketchLineBytes(ver)) - 1)],
      [type |-> 8, payload |-> Zeros(5)] }

\* A file of two segments, and a file of one segment with an empty stream.
Listing2(recsA, recsB) ==
    << Stream(<<Nm("x05", "Summary")>>, <<1>>, <<>>),
       Stream(<<RSeStorage, Nm("M", "A")>>, <<1>>, SizesOf(recsA)),
       Stream(<<RSeStorage, Nm("B", "A")>>, StreamOf(recsA), <<>>),
       Stream(<<RSeStorage, Nm("RSe", "SegInfo")>>, <<1>>, <<>>),
       Stream(<<RSeStorage, RSeDb>>, <<1>>, <<>>),
       Stream(<<RSeStorage, Nm("M", "B")>>, <<1>>, SizesOf(recsB)),
       Stream(<<RSeStorage, Nm("B", "B")>>, StreamOf(recsB), <<>>),
       Stream(<<Nm("", "UFRxDoc")>>, <<1>>, <<>>) >>

Listing1(recsA) ==
    << Stream(<<RSeStorage, Nm("B", "A")>>, StreamOf(recsA), <<>>),
       Stream(<<RSeStorage, Nm("M", "A")>>, <<1>>, SizesOf(recsA)),
       Stream(<<Nm("", "Protein")>>, <<>>, <<>>),
       Stream(<<Nm("", "CacheGraphics"), Nm("", "x")>>, <<1>>, <<>>) >>

Files ==
    { [ole |-> FALSE, version |-> 0, streams |-> <<>>] }
    \cup UNION { { [ole |-> TRUE, version |-> v, streams |-> Listing1(a)]
                   : a \in SeqsUpTo(ImportCatalogue(v), MaxRecs) } : v \in Versions }
    \cup UNION { { [ole |-> TRUE, version |-> v, streams |-> Listing2(a, b)]
                   : a \in SeqsUpTo(ImportCatalogue(v), MaxRecs),
                     b \in SeqsUpTo(ImportCatalogue(v), MaxRecs) } : v \in Versions }

\* The probe of the specifications that do not call ReadNodeRef on its own.
NoProbe == [called |-> FALSE]

\* The import variables of the specifications in which the segment reader runs
\* on its own: the reader is in a call, no file is being imported.
NoImport ==
    /\ file = [ole |-> FALSE, version |-> 0, streams |-> <<>>]
    /\ entry = "none"
    /\ infileBound = FALSE
    /\ pc = "segment"
    /\ caller = "none"
    /\ list = <<>>
    /\ counter = 0
    /\ reads = <<>>
    /\ calls = <<>>
    /\ newDocs = 0
    /\ model3d = FALSE
    /\ errors = <<>>
    /\ env = [canImport |-> TRUE, modelRaises |-> FALSE]
    /\ comment = <<>>

SegInit ==
    /\ fileVersion \in Versions
    /\ \E recs \in SeqsUpTo(Catalogue(fileVersion), MaxNodes) :
          /\ buffer = StreamOf(recs)
          /\ sec = SizesOf(recs)
    /\ unsetRaises \in BOOLEAN
    /\ rtype = DOC_UNSET
    /\ run = 1
    /\ seg = [r \in 1..2 |-> NewSegment]

SegNext ==
    \/ Begin
    \/ Index
    \/ DecodeNode
    \/ BeginResolve
    \/ Resolve
    \/ Redecode

\* The segment reader on one stream, decoded once or twice.
Init == SegInit /\ NoImport /\ probe = NoProbe

Next == SegNext

Spec == Init /\ [][Next]_vars

\* A file is imported: the host calls insert or open on it.
InitImport ==
    /\ file \in Files
    /\ entry \in {"insert", "open"}
    /\ infileBound \in BOOLEAN
    /\ unsetRaises \in BOOLEAN
    /\ fileVersion = 0
    /\ buffer = <<>>
    /\ sec = <<>>
    /\ rtype = DOC_UNSET
    /\ run = 0
    /\ seg = [r \in 1..2 |-> NewSegment]
    /\ pc = "start"
    /\ caller = "none"
    /\ list = <<>>
    /\ counter = 0
    /\ reads = <<>>
    /\ calls = <<>>
    /\ newDocs = 0
    /\ model3d = FALSE
    /\ errors = <<>>
    /\ env \in [canImport : BOOLEAN, modelRaises : BOOLEAN]
    /\ comment \in (IF entry = "insert" THEN {<<>>, <<"old text">>} ELSE {<<>>})
    /\ probe = NoProbe

NextImport ==
    \/ insert
    \/ open
    \/ ReadFile
    \/ ReadElement
    \/ Begin
    \/ Index
    \/ DecodeNode
    \/ BeginResolve
    \/ Resolve
    \/ ElementReturn
    \/ ElementRaise
    \/ ReadFileReturn
    \/ Propagate

SpecImport == InitImport /\ [][NextImport]_vars

\* ------------------------------------------------- one call of ReadNodeRef
\* The words a reference is read from, and the queue the node holds already.
ProbeWords == {0, 1, 2, 65535}

ProbeMasks == {0, 1, 32768, 65535}

Queue(q) == [k \in 1..q |-> [NodeRef(k, 0, TYPE_CHILD) EXCEPT !.number = k]]

ProbeContext(n, m, cut, q) ==
    [data |-> SubSeq(LE16(n) \o LE16(m), 1, 4 - cut), i |-> 0, err |-> FALSE,
     attrs |-> EmptyAttrs, childIndexes |-> Queue(q), typeName |-> "",
     rtype |-> DOC_UNSET, unsetRaises |-> FALSE, log |-> <<>>]

InitRef ==
    /\ \E n \in ProbeWords, m \in ProbeMasks, cut \in {0, 1}, q \in 0..MaxNumber :
       \E number \in 0..MaxNumber, type \in {TYPE_PARENT, TYPE_CHILD, TYPE_CROSS} :
          probe = [called |-> FALSE, st |-> ProbeContext(n, m, cut, q),
                   number |-> number, type |-> type]
    /\ fileVersion = 0
    /\ buffer = <<>>
    /\ sec = <<>>
    /\ unsetRaises = FALSE
    /\ rtype = DOC_UNSET
    /\ run = 0
    /\ seg = [r \in 1..2 |-> NewSegment]
    /\ NoImport

\* ref, i = self.ReadNodeRef(node, offset, number, type)
CallReadNodeRef ==
    /\ ~probe.called
    /\ "st" \in DOMAIN probe
    /\ probe' = [called |-> TRUE, st |-> probe.st, number |-> probe.number,
                 type |-> probe.type,
                 res |-> ReadNodeRef(probe.st, probe.number, probe.type)]
    /\ UNCHANGED <<segVars, impVars>>

NextRef == CallReadNodeRef

SpecRef == InitRef /\ [][NextRef]_vars

\* The segment variables of the specifications in which no segment is read.
NoSegment ==
    /\ fileVersion = 0
    /\ buffer = <<>>
    /\ sec = <<>>
    /\ unsetRaises = FALSE
    /\ rtype = DOC_UNSET
    /\ run = 0
    /\ seg = [r \in 1..2 |-> NewSegment]

\* ------------------------------------- the segment reader on other records
InitRec ==
    /\ fileVersion \in Versions
    /\ \E recs \in SeqsUpTo(Catalogue2(fileVersion), MaxNodes) :
          /\ buffer = StreamOf(recs)
          /\ sec = SizesOf(recs)
    /\ unsetRaises = FALSE
    /\ rtype = DOC_UNSET
    /\ run = 1
    /\ seg = [r \in 1..2 |-> NewSegment]
    /\ NoImport
    /\ probe = NoProbe

NextRec ==
    \/ Begin
    \/ Index
    \/ DecodeNode
    \/ BeginResolve
    \/ Resolve

SpecRec == InitRec /\ [][NextRec]_vars

\* ------------------------------------------------ one call of setNodeData
\* The bytes of a record's payload and the values of the marker after it.
ScanBytes == {0, 1, 2}

\* The type bytes: a UUID without the scan, the two keys with it, no UUID.
ScanTypes == {1, 9, 10, 200}

\* The stream of one record: the type byte, the payload, the 32-bit marker and
\* what follows it in the stream.
InitScan ==
    /\ \E type \in ScanTypes, size \in 0..MaxNumber, marker \in 0..MaxNumber,
          payload \in SeqsUpTo(ScanBytes, MaxNumber), rest \in {<<>>, <<7>>, LE32(1)} :
          probe = [called |-> FALSE,
                   node |-> createNewNode(1, 4, size),
                   data |-> <<type, 0, 0, 0>> \o payload \o LE32(marker) \o rest]
    /\ NoSegment
    /\ NoImport

\* SegmentReader.newNode calls self.setNodeData(node, data, seg)
CallSetNodeData ==
    /\ ~probe.called
    /\ "node" \in DOMAIN probe
    /\ probe' = [called |-> TRUE, node |-> probe.node, data |-> probe.data,
                 res |-> setNodeData(probe.node, probe.data)]
    /\ UNCHANGED <<segVars, impVars>>

NextScan == CallSetNodeData

SpecScan == InitScan /\ [][NextScan]_vars

\* ------------------------------------------------- the loops, step by step
\* The loop of DCReader.ReadRefList as a loop state: the context, the list, j
\* and cnt.
EnterRefList(st) ==
    IF ~CanRead(st.data, st.i, 4)
    THEN [st |-> Raise(st), lst |-> <<>>, j |-> 0, cnt |-> 0]
    ELSE [st |-> [st EXCEPT !.i = @ + 4], lst |-> <<>>, j |-> 0,
          cnt |-> getUInt32(st.data, st.i)]

\* while (j < cnt)
RefListRuns(ls) == ~ls.st.err /\ ls.j < ls.cnt

RefListTaken(ls, r) ==
    [st |-> r.st, lst |-> IF r.st.err THEN ls.lst ELSE Append(ls.lst, r.ref),
     j |-> ls.j + 1, cnt |-> ls.cnt]

StepRefList(ls) == RefListTaken(ls, ReadNodeRef(ls.st, ls.j, TYPE_CROSS))

\* The scan of setNodeData as a loop state: the stream, the position i and the
\* declared size; s is the marker at i.
ScanRuns(sc) ==
    ~sc.err /\ getUInt32(sc.data, sc.i) # sc.size /\ sc.i < Len(sc.data)

StepScan(sc) ==
    IF ~CanRead(sc.data, sc.i + 1, 4) THEN [sc EXCEPT !.err = TRUE]
    ELSE [sc EXCEPT !.i = @ + 1]

\* A context on a buffer of its own.
LoopContext(data) ==
    [data |-> data, i |-> 0, err |-> FALSE, attrs |-> EmptyAttrs,
     childIndexes |-> <<>>, typeName |-> "", rtype |-> DOC_UNSET,
     unsetRaises |-> FALSE, log |-> <<>>]

\* The entries of a sentinel loop: e[k] is the value the k-th entry gives loop.
RECURSIVE Entries0(_)
Entries0(e) ==
    IF e = <<>> THEN <<>>
    ELSE LE32(3) \o LE32(4) \o LE16(Head(e)) \o LE16(5) \o Entries0(Tail(e))

RECURSIVE Entries1(_)
Entries1(e) ==
    IF e = <<>> THEN <<>>
    ELSE LE16(7) \o LE32(3) \o LE32(4) \o LE16(Head(e)) \o Entries1(Tail(e))

RECURSIVE RefsBytes(_)
RefsBytes(r) == IF r = <<>> THEN <<>> ELSE RefBytes(Head(r)) \o RefsBytes(Tail(r))

\* The buffer without its last cut bytes.
CutOff(data, cut) == SubSeq(data, 1, IF cut > Len(data) THEN 0 ELSE Len(data) - cut)

\* A count the buffer can not hold: 0x00FFFFFF.
HugeCount == 256 * 256 * 256 - 1

Running(kind, ls) == [kind |-> kind, enter |-> ls, ls |-> ls, state |-> "running"]

InitLoop ==
    /\ \/ \E e \in SeqsUpTo({0, 1}, MaxNumber + 1), cut \in {0, 1} :
             probe = Running("fmt0",
                        Enter0_75A6689B(LoopContext(CutOff(Entries0(e), cut))))
       \/ \E e \in SeqsUpTo({0, 1}, MaxNumber + 1), first \in {0, 1}, cut \in {0, 1} :
             probe = Running("fmt1",
                        Enter1_75A6689B(LoopContext(
                            CutOff(LE16(first) \o Entries1(e), cut))))
       \/ \E cnt \in (0..MaxNumber) \cup {HugeCount},
             r \in SeqsUpTo(0..2, MaxNumber), cut \in {0, 1} :
             probe = Running("reflist",
                        EnterRefList(LoopContext(CutOff(LE32(cnt) \o RefsBytes(r), cut))))
       \/ \E size \in 0..MaxNumber, marker \in 0..MaxNumber,
             payload \in SeqsUpTo(ScanBytes, MaxNumber + 1), rest \in {<<>>, <<7>>} :
             /\ size <= Len(payload)
             /\ probe = Running("scan",
                           [data |-> payload \o LE32(marker) \o rest, i |-> size,
                            size |-> size, err |-> FALSE])
    /\ NoSegment
    /\ NoImport

\* One pass through the body of the first while loop of Read_75A6689B.
Iterate0_75A6689B ==
    /\ probe.kind = "fmt0"
    /\ probe.state = "running"
    /\ LoopRuns(probe.ls)
    /\ probe' = [probe EXCEPT !.ls = Step0_75A6689B(@)]
    /\ UNCHANGED <<segVars, impVars>>

\* One pass through the body of the second while loop of Read_75A6689B.
Iterate1_75A6689B ==
    /\ probe.kind = "fmt1"
    /\ probe.state = "running"
    /\ LoopRuns(probe.ls)
    /\ probe' = [probe EXCEPT !.ls = Step1_75A6689B(@)]
    /\ UNCHANGED <<segVars, impVars>>

\* One pass through the body of the loop of ReadRefList.
IterateRefList ==
    /\ probe.kind = "reflist"
    /\ probe.state = "running"
    /\ RefListRuns(probe.ls)
    /\ probe' = [probe EXCEPT !.ls = StepRefList(@)]
    /\ UNCHANGED <<segVars, impVars>>

\* One pass through the body of the scan of setNodeData.
IterateScan ==
    /\ probe.kind = "scan"
    /\ probe.state = "running"
    /\ ScanRuns(probe.ls)
    /\ probe' = [probe EXCEPT !.ls = StepScan(@)]
    /\ UNCHANGED <<segVars, impVars>>

\* Whether the loop of the probe goes on.
ProbeRuns ==
    CASE probe.kind = "fmt0" -> LoopRuns(probe.ls)
      [] probe.kind = "fmt1" -> LoopRuns(probe.ls)
      [] probe.kind = "reflist" -> RefListRuns(probe.ls)
      [] probe.kind = "scan" -> ScanRuns(probe.ls)

\* The loop is left: its condition is false or an exception propagates.
LoopExit ==
    /\ probe.state = "running"
    /\ ~ProbeRuns
    /\ probe' = [probe EXCEPT !.state =
                    IF probe.kind = "scan"
                    THEN (IF probe.ls.err THEN "raised" ELSE "returned")
                    ELSE (IF probe.ls.st.err THEN "raised" ELSE "returned")]
    /\ UNCHANGED <<segVars, impVars>>

NextLoop ==
    \/ Iterate0_75A6689B
    \/ Iterate1_75A6689B
    \/ IterateRefList
    \/ IterateScan
    \/ LoopExit

\* The loops are run to their end: the interpreter goes on while it can.
SpecLoop == InitLoop /\ [][NextLoop]_vars /\ WF_vars(NextLoop)

\* ------------------------------------------------ one call of a list reader
ListReaders ==
    {"ReadRefList", "ReadRefRefList", "ReadRefXRefList", "ReadRefU32List",
     "ReadRefU32AList", "ReadRefU32U8List", "ReadRefU32D64List"}

\* The tuples written to a list: r and q are reference indexes (0: no node), v
\* is a 32-bit word and q also serves as the tuple's small scalar.
ListTuples == { [r |-> a, q |-> b, v |-> c] : a \in {0, 2}, b \in {0, 1}, c \in {5, 300} }

\* The bytes of one tuple as the reader's list holds it.
TupleBytes(reader, t) ==
    CASE reader = "ReadRefList" -> RefBytes(t.r)
      [] reader = "ReadRefRefList" -> RefBytes(t.r) \o RefBytes(t.q)
      [] reader = "ReadRefXRefList" -> RefBytes(t.r) \o RefBytes(t.q)
      [] reader = "ReadRefU32List" -> RefBytes(t.r) \o LE32(t.v)
      [] reader = "ReadRefU32AList" -> RefBytes(t.r) \o LE32(t.v) \o LE32(t.q)
      [] reader = "ReadRefU32U8List" -> RefBytes(t.r) \o LE32(t.v) \o <<t.q>>
      [] reader = "ReadRefU32D64List" -> RefBytes(t.r) \o LE32(t.v) \o <<t.q>> \o Zeros(7)

RECURSIVE TuplesBytes(_, _)
TuplesBytes(reader, items) ==
    IF items = <<>> THEN <<>>
    ELSE TupleBytes(reader, Head(items)) \o TuplesBytes(reader, Tail(items))

\* A list of the given tuples behind lead bytes of other fields, without its
\* last cut bytes, in a node that holds q queued references already.
ListContext(reader, items, lead, cut, q) ==
    [LoopContext(CutOff(Zeros(lead) \o LE32(Len(items)) \o TuplesBytes(reader, items), cut))
        EXCEPT !.i = lead, !.childIndexes = Queue(q)]

InitList ==
    /\ \E reader \in ListReaders, items \in SeqsUpTo(ListTuples, MaxNumber),
          lead \in {0, 3}, cut \in {0, 1}, q \in {0, 1} :
          probe = [called |-> FALSE, reader |-> reader, items |-> items, cut |-> cut,
                   st |-> ListContext(reader, items, lead, cut, q)]
    /\ NoSegment
    /\ NoImport

\* i = self.Read...List(node, i, 'lst')
ListRead(reader, st) ==
    CASE reader = "ReadRefList" -> ReadRefList(st, "lst")
      [] reader = "ReadRefRefList" -> ReadRefRefList(st, "lst")
      [] reader = "ReadRefXRefList" -> ReadRefXRefList(st, "lst")
      [] reader = "ReadRefU32List" -> ReadRefU32List(st, "lst")
      [] reader = "ReadRefU32AList" -> ReadRefU32AList(st, "lst", 2, TYPE_CHILD)
      [] reader = "ReadRefU32U8List" -> ReadRefU32U8List(st, "lst")
      [] reader = "ReadRefU32D64List" -> ReadRefU32D64List(st, "lst")

CallListReader ==
    /\ ~probe.called
    /\ probe' = [probe EXCEPT !.called = TRUE] @@ [res |-> ListRead(probe.reader, probe.st)]
    /\ UNCHANGED <<segVars, impVars>>

NextList == CallListReader

SpecList == InitList /\ [][NextList]_vars

\* -------------------------------------------------- the read order of a file
\* The names ole.listdir may return.
StreamNames ==
    { <<RSeStorage, RSeDb>>,
      <<RSeStorage, Nm("RSe", "SegInfo")>>,
      <<RSeStorage, Nm("RSe", "DbRevisionInfo")>>,
      <<RSeStorage, Nm("M", "A")>>,
      <<RSeStorage, Nm("B", "A")>>,
      <<RSeStorage, Nm("RSe", "Embeddings"), RSeDb>>,
      <<Nm("x05", "Summary")>>,
      <<Nm("", "UFRxDoc")>>,
      <<RSeDb>> }

\* The listings of at most n streams: no name twice, in any order.
Listings(n) ==
    { l \in SeqsUpTo(StreamNames, n) :
        \A i, j \in DOMAIN l : i # j => l[i] # l[j] }

InitOrder ==
    /\ \E elements \in Listings(MaxStreams) :
          probe = [called |-> FALSE, elements |-> elements, list |-> <<>>, reads |-> <<>>]
    /\ NoSegment
    /\ NoImport

\* ReadFile from elements = ole.listdir(...) to the end of the loop that builds
\* the list.
BuildReadOrder ==
    /\ ~probe.called
    /\ probe' = [probe EXCEPT !.called = TRUE, !.list = ReadOrder(probe.elements)]
    /\ UNCHANGED <<segVars, impVars>>

\* for fname in list: ReadElement(ole, fname, doc, counter, readProperties), on
\* a stream that is not empty.
ReadNextElement ==
    /\ probe.called
    /\ Len(probe.reads) < Len(probe.list)
    /\ probe' = [probe EXCEPT !.reads =
                    Append(@, Reader(probe.list[Len(probe.reads) + 1], <<1>>, FALSE))]
    /\ UNCHANGED <<segVars, impVars>>

NextOrder == BuildReadOrder \/ ReadNextElement

SpecOrder == InitOrder /\ [][NextOrder]_vars

\* ----------------------------------------------- one call of a header reader
\* The flags words of the content headers: no bit, each of the two bits, both,
\* and all bits below 0x400.
HeaderFlags == {0, 1023, 1024, 8388608, 8388608 + 1024, 8388608 + 1023}

\* A list as ReadList6 reads it: n entries of a key and a reference.
RECURSIVE List6Bytes(_)
List6Bytes(n) ==
    IF n = 0 THEN LE32(0)
    ELSE LE32(n) \o SubSeq(List6Bytes(n - 1), 5, Len(List6Bytes(n - 1)))
           \o LE32(n) \o RefBytes(1)

\* The header of a 2D constraint as a file of release wver holds it.
ConstraintHeaderBytes(wver, flags, group, n0, n1, param) ==
    ContentHeaderBytes(1, flags, 2, 7) \o Zeros(4) \o LE32(9) \o Zeros(4)
      \o RefBytes(group)
      \o (IF wver > 2012 THEN List6Bytes(n0) \o List6Bytes(n1) ELSE Zeros(8))
      \o RefBytes(param)

\* A DerivedPart record up to a0 with the given u32_0, and tail bytes after it:
\* a word of 7 (4 bytes), a block-size marker and a byte of 1 (5 bytes), or the
\* word, the marker and the byte (9 bytes).
DerivedPartHead(u32) ==
    ContentHeaderBytes(0, 0, 1, 3) \o Zeros(4) \o LE32(2) \o Zeros(8)
      \o LE32(1) \o RefBytes(1) \o LE32(u32) \o Zeros(4) \o RefBytes(2)
      \o LE16(1) \o LE16(2) \o Text16Bytes(Name_d0) \o Zeros(8) \o Zeros(5)

DerivedPartBytes(u32, tail) ==
    DerivedPartHead(u32)
      \o (IF tail = 5 THEN <<>> ELSE LE32(7))
      \o (IF tail = 4 THEN <<>> ELSE Zeros(4) \o <<1>>)

InitHeader ==
    /\ \/ \E label \in {0, 1}, flags \in HeaderFlags, parent \in {0, 2},
             index \in {0, 7}, cut \in {0, 1} :
             probe = [called |-> FALSE, fn |-> "ReadContentHeader",
                      label |-> label, flags |-> flags, parent |-> parent,
                      index |-> index, cut |-> cut,
                      st |-> LoopContext(CutOff(
                                ContentHeaderBytes(label, flags, parent, index) \o <<255>>,
                                2 * cut))]
       \/ \E wver \in Versions, flags \in {0, 1024}, group \in {0, 1}, param \in {0, 2},
             n0 \in {0, 1}, n1 \in {0, 1}, cut \in {0, 1} :
             probe = [called |-> FALSE, fn |-> "ReadConstraintHeader2D",
                      wver |-> wver, group |-> group, param |-> param,
                      n0 |-> n0, n1 |-> n1, cut |-> cut,
                      st |-> LoopContext(CutOff(
                                ConstraintHeaderBytes(wver, flags, group, n0, n1, param),
                                cut))]
       \/ \E u32 \in {0, 5}, tail \in {4, 5, 9} :
             probe = [called |-> FALSE, fn |-> "Read_255D7ED7",
                      u32 |-> u32, tail |-> tail,
                      st |-> LoopContext(DerivedPartBytes(u32, tail))]
    /\ NoSegment
    /\ NoImport

\* i = self.ReadContentHeader(node)
CallReadContentHeader ==
    /\ ~probe.called
    /\ probe.fn = "ReadContentHeader"
    /\ probe' = [probe EXCEPT !.called = TRUE] @@ [res |-> ReadContentHeader(probe.st)]
    /\ UNCHANGED <<segVars, impVars>>

\* i = self.ReadConstraintHeader2D(node, typeName), under each file version.
CallReadConstraintHeader2D ==
    /\ ~probe.called
    /\ probe.fn = "ReadConstraintHeader2D"
    /\ probe' = [probe EXCEPT !.called = TRUE]
                  @@ [res |-> [v \in Versions |->
                                 ReadConstraintHeader2D(probe.st, "Constraint", v)]]
    /\ UNCHANGED <<segVars, impVars>>

\* The dispatch of a DerivedPart record, under each file version.
CallRead_255D7ED7 ==
    /\ ~probe.called
    /\ probe.fn = "Read_255D7ED7"
    /\ probe' = [probe EXCEPT !.called = TRUE]
                  @@ [res |-> [v \in Versions |-> Read_255D7ED7(probe.st, v)]]
    /\ UNCHANGED <<segVars, impVars>>

NextHeader == CallReadContentHeader \/ CallReadConstraintHeader2D \/ CallRead_255D7ED7

SpecHeader == InitHeader /\ [][NextHeader]_vars

\* ------------------------------------------------------------- properties
\* The decoded nodes of the segments: the pairs <<r, k>> with node k of seg[r].
Decoded_Nodes == { <<r, k>> \in (1..2) \X (1..MaxNodes + 1) : k <= Len(seg[r].nodes) }

NodeAt(rk) == seg[rk[1]].nodes[rk[2]]

C2_UnknownKeyIgnored ==
    \A rk \in Decoded_Nodes :
        NodeAt(rk).typeID \notin DecoderKeys
            => /\ seg[rk[1]].failedAt # rk[2]
               /\ NodeAt(rk).attrs = EmptyAttrs
               /\ NodeAt(rk).childIndexes = <<>>
               /\ ~NodeAt(rk).known
               /\ NodeAt(rk).typeName = NodeAt(rk).typeID
               /\ NodeAt(rk).data =
                     Slice(buffer, NodeAt(rk).offset, NodeAt(rk).offset + NodeAt(rk).size)

\* A segment read to the end whose first record has no decoder and whose
\* second was decoded.
C2_Witness ==
    \E r \in 1..2 :
        /\ seg[r].phase = "Done"
        /\ Len(seg[r].nodes) = 2
        /\ seg[r].nodes[1].typeID \notin DecoderKeys
        /\ Len(seg[r].nodes[1].data) > 0
        /\ seg[r].nodes[2].known

\* The index encoded in the words the probe's reference is read from.
ProbeIndex ==
    NodeRef(getUInt16(probe.st.data, probe.st.i),
            getUInt16(probe.st.data, probe.st.i + 2), probe.type).index

\* C3: a reference read with an encoded index <= 0 is null and the node's queue
\* is as it was; one with an index > 0 adds exactly one entry, the reference
\* itself, to the end of the queue.
C3_NullOrQueuedOnce ==
    (probe.called /\ ~probe.res.st.err)
        => IF ProbeIndex <= 0
           THEN /\ probe.res.ref = NullV
                /\ probe.res.st.childIndexes = probe.st.childIndexes
           ELSE /\ Len(probe.res.st.childIndexes) = Len(probe.st.childIndexes) + 1
                /\ SubSeq(probe.res.st.childIndexes, 1, Len(probe.st.childIndexes))
                      = probe.st.childIndexes
                /\ probe.res.ref = RefV(Len(probe.res.st.childIndexes))
                /\ probe.res.st.childIndexes[Len(probe.res.st.childIndexes)]
                      = [index |-> ProbeIndex,
                         mask |-> getUInt16(probe.st.data, probe.st.i + 2) \div 32768,
                         type |-> probe.type, number |-> probe.number, node |-> 0]

\* A reference with index 0 and the mask bit set was read into a node that
\* holds queued references already.
C3_Witness ==
    /\ probe.called
    /\ ~probe.res.st.err
    /\ ProbeIndex = 0
    /\ getUInt16(probe.st.data, probe.st.i + 2) = 32768
    /\ Len(probe.st.childIndexes) > 0
    /\ probe.res.ref = NullV

\* C4: after the resolving pass every queued reference is null or points to a
\* node of the same segment's node index, the one with the reference's index;
\* a reference whose index no node has stays null, and the segment is Done.
C4_ResolvedOrNull ==
    \A r \in 1..2 :
        seg[r].phase = "Done"
            => \A k \in DOMAIN seg[r].nodes :
               \A j \in DOMAIN seg[r].nodes[k].childIndexes :
                  /\ \/ seg[r].nodes[k].childIndexes[j].node = 0
                     \/ seg[r].nodes[k].childIndexes[j].node \in DOMAIN seg[r].nodes
                  /\ seg[r].nodes[k].childIndexes[j].node # 0
                        => seg[r].nodes[seg[r].nodes[k].childIndexes[j].node].index
                              = seg[r].nodes[k].childIndexes[j].index
                  /\ seg[r].nodes[k].childIndexes[j].index \notin DOMAIN seg[r].nodes
                        => seg[r].nodes[k].childIndexes[j].node = 0

\* A segment is Done with a reference that was resolved and a reference whose
\* index no node of the segment has.
C4_Witness ==
    \E r \in 1..2 :
        /\ seg[r].phase = "Done"
        /\ \E k \in DOMAIN seg[r].nodes :
           \E j \in DOMAIN seg[r].nodes[k].childIndexes :
              seg[r].nodes[k].childIndexes[j].node # 0
        /\ \E k \in DOMAIN seg[r].nodes :
           \E j \in DOMAIN seg[r].nodes[k].childIndexes :
              /\ seg[r].nodes[k].childIndexes[j].index = Dangling
              /\ seg[r].nodes[k].childIndexes[j].node = 0

SegStep(a, b) ==
    \/ a = b
    \/ /\ a.phase = "Init"
       /\ b = [a EXCEPT !.phase = "Indexing"]
    \/ /\ a.phase = "Indexing"
       /\ b.phase = "Decoding"
       /\ b.nodes = <<>>
    \/ /\ a.phase = "Decoding"
       /\ b.phase = "Decoding"
       /\ Len(a.nodes) < a.count
       /\ Len(b.nodes) = Len(a.nodes) + 1
       /\ SubSeq(b.nodes, 1, Len(a.nodes)) = a.nodes
       /\ b.nodes[Len(b.nodes)].index = Len(b.nodes)
       /\ b.nodes[Len(b.nodes)].offset = a.pos + 4
       /\ b.count = a.count
    \/ /\ a.phase = "Decoding"
       /\ b.phase = "Failed"
    \/ /\ a.phase = "Decoding"
       /\ b.phase = "Resolving"
       /\ Len(a.nodes) = a.count
       /\ b.nodes = a.nodes
    \/ /\ a.phase = "Resolving"
       /\ b.phase = "Done"
       /\ Len(b.nodes) = Len(a.nodes)

\* C6: a segment goes Init, Indexing, Decoding, Resolving, Done in that order;
\* in Decoding the records are decoded one at a time in stream order, Resolving
\* starts when the last record of the node table is decoded, and a segment that
\* is Done (or whose decode was ended by an exception) never changes again.
C6_SegmentOrder ==
    [][\A r \in 1..2 : SegStep(seg[r], seg'[r])]_vars

\* A segment of two records is Done.
C6_Witness ==
    /\ seg[1].phase = "Done"
    /\ seg[1].count = 2
    /\ Len(seg[1].nodes) = 2

\* The segments of the file: the streams of the read order that the segment
\* reader is run on.
NumSegments ==
    Cardinality({ k \in DOMAIN list : Last(list[k])[1] = "M" /\ list[k][1] = RSeStorage })

\* C7 as stated: no resolving pass of a segment starts before every segment of
\* the document has finished decoding.
C7_GlobalBarrier ==
    \A r \in 1..2 :
        seg[r].phase \in {"Resolving", "Done"}
            => \A q \in 1..NumSegments : seg[q].phase \in {"Resolving", "Done"}

\* C7: the segments are read one after the other: the resolving pass of a
\* segment starts when that segment's records are decoded, a stream's segment
\* is begun only when the segment before it is Done, and the 3D model is
\* created only when every segment is Done.
C7_SegmentBySegment ==
    /\ \A r \in 1..2 :
          seg[r].phase \in {"Resolving", "Done"} => Len(seg[r].nodes) = seg[r].count
    /\ seg[2].phase # "Init" => seg[1].phase = "Done"
    /\ model3d => \A q \in 1..NumSegments : seg[q].phase = "Done"

\* The first segment is resolved and Done while the second is being decoded.
C7_Witness ==
    /\ NumSegments = 2
    /\ seg[1].phase = "Done"
    /\ Len(seg[1].nodes) > 0
    /\ seg[2].phase = "Decoding"

\* C8 as stated: after a decode error in one segment ReadFile reads every later
\* stream of its read order and the import finishes.
C8_LaterStreamsStillRead ==
    (pc \in {"done", "crashed"} /\ \E r \in 1..2 : seg[r].phase = "Failed")
        => pc = "done" /\ Len(reads) = Len(list)

\* C8: a decode error in a segment leaves ReadFile: the failing stream is the
\* last one that call reads and no 3D model is created; insert then calls open,
\* which reads the streams again and fails at the same stream.
C8_ErrorEndsReadFile ==
    /\ \A r \in 1..2 :
          seg[r].phase = "Failed"
              => /\ r = run
                 /\ pc \in {"segment", "raised", "crashed"}
                 /\ Len(reads) = counter
                 /\ reads[counter].fname = list[counter]
                 /\ ~model3d
    /\ \A c \in DOMAIN calls :
          calls[c].result = "raised" /\ file.ole
              => /\ calls[c].reads # <<>>
                 /\ Len(calls[c].reads) = Len(calls[1].reads)
                 /\ ~model3d
    /\ pc = "crashed" /\ entry = "insert" => Len(calls) = 2 /\ newDocs = 1

\* insert met a decode error in the first segment, called open, and open ended
\* with the same error: streams of the read order were never read.
C8_Witness ==
    /\ pc = "crashed"
    /\ entry = "insert"
    /\ seg[1].phase = "Failed"
    /\ Len(reads) < Len(list)
    /\ Len(calls) = 2
    /\ newDocs = 1

\* C9 as stated: for a file that is not a compound file ReadFile reports the
\* failure and returns False, no stream is read and no 3D model is created.
C9_NotOleReportedAndFalse ==
    (entry \in {"insert", "open"} /\ ~file.ole)
        => /\ reads = <<>>
           /\ ~model3d
           /\ pc \in {"start", "ReadFile", "done"}
           /\ pc = "done"
                 => /\ Len(errors) = 1
                    /\ calls = <<[by |-> entry, result |-> "False", reads |-> <<>>]>>

\* C10: a SketchLine record whose data ends one byte before the end of its four
\* trailing floats ends the decode of its segment with an exception; its
\* decoder returns no offset.
C10_TruncatedSketchLineRaises ==
    \A rk \in Decoded_Nodes :
        (/\ NodeAt(rk).typeID = "CE52DF3A"
         /\ NodeAt(rk).data =
               SubSeq(SketchLineBytes(fileVersion), 1, Len(SketchLineBytes(fileVersion)) - 1))
            => /\ NodeAt(rk).known
               /\ NodeAt(rk).ret = -1
               /\ seg[rk[1]].phase = "Failed"
               /\ seg[rk[1]].failedAt = rk[2]

\* The decode of a segment failed at a truncated SketchLine whose header,
\* points and first three floats were read.
C10_Witness ==
    \E rk \in Decoded_Nodes :
        /\ NodeAt(rk).typeID = "CE52DF3A"
        /\ Len(NodeAt(rk).data) = Len(SketchLineBytes(fileVersion)) - 1
        /\ seg[rk[1]].failedAt = rk[2]
        /\ "dirX" \in DOMAIN NodeAt(rk).attrs
        /\ "dirY" \notin DOMAIN NodeAt(rk).attrs

\* The number of entries x of a log.
Count(log, x) == Cardinality({ k \in DOMAIN log : log[k] = x })

\* The nodes of segment r whose decoder returned an offset other than the
\* record's size.
Mismatched(r) ==
    { k \in DOMAIN seg[r].nodes :
        /\ seg[r].nodes[k].known
        /\ seg[r].nodes[k].ret >= 0
        /\ seg[r].nodes[k].ret # Len(seg[r].nodes[k].data) }

\* C11: every decoder that returned an offset other than the record's size has
\* an entry of its own in the segment's log, and the early returns of
\* Read_19F763CB (unknown block type) and Read_75A6689B (unknown format) have
\* logged their error as well.
C11_MismatchReported ==
    \A r \in 1..2 :
        /\ Count(seg[r].log, "size mismatch") = Cardinality(Mismatched(r))
        /\ \A k \in DOMAIN seg[r].nodes :
              /\ (/\ seg[r].nodes[k].typeID = "75A6689B"
                  /\ seg[r].nodes[k].ret >= 0
                  /\ "lst2" \notin DOMAIN seg[r].nodes[k].attrs)
                     => /\ k \in Mismatched(r)
                        /\ Count(seg[r].log, "unknown type") >= 1
              /\ (/\ seg[r].nodes[k].typeID = "19F763CB"
                  /\ seg[r].nodes[k].ret >= 0
                  /\ "refSketch" \notin DOMAIN seg[r].nodes[k].attrs)
                     => /\ k \in Mismatched(r)
                        /\ Count(seg[r].log, "Unknown block type") >= 1

\* A segment is Done in which Read_75A6689B returned on an unknown format before
\* the end of its record and the record after it was decoded to its end.
C11_Witness ==
    /\ seg[1].phase = "Done"
    /\ Len(seg[1].nodes) = 2
    /\ seg[1].nodes[1].typeID = "75A6689B"
    /\ seg[1].nodes[1].ret >= 0
    /\ seg[1].nodes[1].ret < Len(seg[1].nodes[1].data)
    /\ "lst2" \notin DOMAIN seg[1].nodes[1].attrs
    /\ seg[1].nodes[2].ret = Len(seg[1].nodes[2].data)
    /\ seg[1].log = <<"unknown type", "size mismatch">>

\* The record end setNodeData was called with, and the one it left.
ScanDeclaredEnd == probe.node.offset + probe.node.size

ScanEnd == probe.res.node.offset + probe.res.node.size

\* Whether the record's type byte names one of the two keys of the scan.
ScanKey == getUInt8(probe.data, 0) \in {9, 10}

\* C12: for the keys 2B48A42B and 90874D63, when the marker after the declared
\* record end differs from the declared size, setNodeData moves the record end
\* forward to the first position whose 32-bit marker equals the declared size
\* and sets node.size to that position minus the node's offset; in every other
\* case the size is kept.  The size never shrinks, and node.data is the byte
\* range of the size that was set.
C12_ScanToMarker ==
    (probe.called /\ ~probe.res.raised)
        => /\ probe.res.node.size >= probe.node.size
           /\ probe.res.node.data = Slice(probe.data, probe.node.offset, ScanEnd)
           /\ IF ScanKey /\ getUInt32(probe.data, ScanDeclaredEnd) # probe.node.size
              THEN /\ getUInt32(probe.data, ScanEnd) = probe.node.size
                   /\ \A p \in ScanDeclaredEnd..(ScanEnd - 1) :
                         getUInt32(probe.data, p) # probe.node.size
              ELSE probe.res.node.size = probe.node.size

\* setNodeData moved the end of a 90874D63 record forward by more than one byte,
\* and the marker it stopped at is not the last position of the stream.
C12_Witness ==
    /\ probe.called
    /\ ~probe.res.raised
    /\ getUInt8(probe.data, 0) = 10
    /\ probe.res.node.size > probe.node.size + 1
    /\ ScanEnd + 4 < Len(probe.data)

\* What the loop of the probe left is what the operator of the decoders gives
\* for the loop state it was entered with.
LoopResult ==
    CASE probe.kind = "fmt0" -> probe.ls = Loop0_75A6689B(probe.enter)
      [] probe.kind = "fmt1" -> probe.ls = Loop1_75A6689B(probe.enter)
      [] probe.kind = "reflist" ->
            [st |-> probe.ls.st, lst |-> probe.ls.lst]
               = RefListItems(probe.enter.st, 0, probe.enter.cnt, TYPE_CROSS, <<>>)
      [] probe.kind = "scan" ->
            (IF probe.ls.err THEN -1 ELSE probe.ls.i)
               = ScanMarker(probe.enter.data, probe.enter.i, probe.enter.size)

\* C13: each of the loops (the two sentinel loops of Read_75A6689B, the
\* count-driven loop of ReadRefList, the scan of setNodeData) is left on every
\* buffer: it returns or an exception ends it, and it leaves what the decoder's
\* loop computes.
C13_LoopsTerminate ==
    /\ <>(probe.state \in {"returned", "raised"})
    /\ [](probe.state \in {"returned", "raised"} => LoopResult)

\* A sentinel loop read every entry of a buffer that holds no sentinel and was
\* ended by the exception of the read after the last entry.
C13_Witness ==
    /\ probe.kind = "fmt0"
    /\ probe.state = "raised"
    /\ Len(probe.ls.st.data) = 12 * (MaxNumber + 1)
    /\ Len(probe.ls.lst) = MaxNumber + 1

\* C14 as stated: the decode of a node leaves the reader's state (its document
\* kind) and every node decoded before it as they were.
C14_DecodeWritesOwnNodeOnly ==
    [][\A r \in 1..2 :
          (seg[r].phase = "Decoding" /\ Len(seg'[r].nodes) = Len(seg[r].nodes) + 1)
              => /\ rtype' = rtype
                 /\ SubSeq(seg'[r].nodes, 1, Len(seg[r].nodes)) = seg[r].nodes]_vars

\* C15: a list reader that reads count = 0 stores the empty list under the
\* list's name, raises nothing, returns the offset after the 4-byte count and
\* queues no reference.
C15_EmptyList ==
    (probe.called /\ probe.items = <<>> /\ probe.cut = 0)
        => /\ ~probe.res.err
           /\ "lst" \in DOMAIN probe.res.attrs
           /\ probe.res.attrs["lst"] = LstV(<<>>)
           /\ probe.res.i = probe.st.i + 4
           /\ probe.res.childIndexes = probe.st.childIndexes

\* ReadRefU32List read a list of no entries that lies behind other fields.
C15_Witness ==
    /\ probe.called
    /\ probe.reader = "ReadRefU32List"
    /\ probe.items = <<>>
    /\ probe.cut = 0
    /\ probe.st.i = 3
    /\ probe.res.i = 7

\* The value of a reference field written with index idx in tuple k, of the
\* kind the reader gives it: null for idx = 0, else a queued reference.
IsRef(val, idx, type, k) ==
    IF idx = 0 THEN val = NullV
    ELSE /\ val[1] = "ref"
         /\ val[2] \in DOMAIN probe.res.childIndexes
         /\ val[2] > Len(probe.st.childIndexes)
         /\ probe.res.childIndexes[val[2]] =
               [index |-> idx, mask |-> 0, type |-> type, number |-> k - 1, node |-> 0]

\* The k-th entry of the list is what the k-th tuple of the stream holds.
EntryIs(reader, e, t, k) ==
    CASE reader = "ReadRefList" -> IsRef(e, t.r, TYPE_CROSS, k)
      [] reader = "ReadRefRefList" ->
            /\ Len(e[2]) = 2
            /\ IsRef(e[2][1], t.r, TYPE_CHILD, k)
            /\ IsRef(e[2][2], t.q, TYPE_CHILD, k)
      [] reader = "ReadRefXRefList" ->
            /\ Len(e[2]) = 2
            /\ IsRef(e[2][1], t.r, TYPE_CHILD, k)
            /\ IsRef(e[2][2], t.q, TYPE_CROSS, k)
      [] reader = "ReadRefU32List" ->
            /\ Len(e[2]) = 2
            /\ IsRef(e[2][1], t.r, TYPE_CROSS, k)
            /\ e[2][2] = IntV(t.v)
      [] reader = "ReadRefU32AList" ->
            /\ Len(e[2]) = 2
            /\ IsRef(e[2][1], t.r, TYPE_CHILD, k)
            /\ e[2][2] = ArrV(<<t.v, t.q>>)
      [] reader = "ReadRefU32U8List" ->
            /\ Len(e[2]) = 3
            /\ IsRef(e[2][1], t.r, TYPE_CROSS, k)
            /\ e[2][2] = IntV(t.v)
            /\ e[2][3] = IntV(t.q)
      [] reader = "ReadRefU32D64List" ->
            /\ Len(e[2]) = 3
            /\ IsRef(e[2][1], t.r, TYPE_CROSS, k)
            /\ e[2][2] = IntV(t.v)
            /\ e[2][3] = RawV(<<t.q>> \o Zeros(7))

\* C16: a list reader that returns has stored exactly count entries, the k-th
\* of them built from the k-th tuple of the stream; a null reference is an entry
\* (or a field of its entry) like any other.
C16_OrderKept ==
    (probe.called /\ ~probe.res.err)
        => /\ probe.res.attrs["lst"][1] = "lst"
           /\ Len(probe.res.attrs["lst"][2]) = Len(probe.items)
           /\ \A k \in DOMAIN probe.items :
                 EntryIs(probe.reader, probe.res.attrs["lst"][2][k], probe.items[k], k)

\* ReadRefList read a list whose first reference is null and whose second one
\* is not.
C16_Witness ==
    /\ probe.called
    /\ ~probe.res.err
    /\ probe.reader = "ReadRefList"
    /\ Len(probe.items) = 2
    /\ probe.items[1].r = 0
    /\ probe.items[2].r = 2
    /\ probe.res.attrs["lst"][2][1] = NullV
    /\ probe.res.attrs["lst"][2][2] # NullV

\* The references of kind parent that node k of segment r has queued.
ParentRefs(r, k) ==
    { j \in DOMAIN seg[r].nodes[k].childIndexes :
        seg[r].nodes[k].childIndexes[j].type = TYPE_PARENT }

\* C17: no node holds more than one reference of the kind parent, whatever its
\* decoder has read.
C17_AtMostOneParentRef ==
    \A r \in 1..2 : \A k \in DOMAIN seg[r].nodes : Cardinality(ParentRefs(r, k)) <= 1

\* The nodes of segment r that were decoded from the given record.
NodesOf(r, type, payload) ==
    { k \in DOMAIN seg[r].nodes :
        /\ seg[r].nodes[k].typeID = type
        /\ seg[r].nodes[k].ret >= 0
        /\ seg[r].nodes[k].data = payload }

NameOf(r, k) == seg[r].nodes[k].attrs["name"]

\* C18: a Parameter named "PI" is decoded to a node named "pi" and each such
\* rename is logged once; a ParameterConstant named "PI" or "E" is decoded to a
\* node named "pi" or "e"; a name that is not in the table is the node's name as
\* it was read, and nothing is logged for it.
C18_NamesTranslated ==
    \A r \in 1..2 :
        /\ \A k \in NodesOf(r, "90874D26", ParameterBytes(Name_PI)) :
              NameOf(r, k) = ArrV(Name_pi)
        /\ \A k \in NodesOf(r, "90874D26", ParameterBytes(Name_d0)) :
              NameOf(r, k) = ArrV(Name_d0)
        /\ \A k \in NodesOf(r, "0AA8AF46", ParameterConstantBytes(Name_PI)) :
              NameOf(r, k) = ArrV(Name_pi)
        /\ \A k \in NodesOf(r, "0AA8AF46", ParameterConstantBytes(Name_E)) :
              NameOf(r, k) = ArrV(Name_e)
        /\ \A k \in NodesOf(r, "0AA8AF46", ParameterConstantBytes(Name_d0)) :
              NameOf(r, k) = ArrV(Name_d0)
        /\ Count(seg[r].log, "translated parameter name")
              = Cardinality(NodesOf(r, "90874D26", ParameterBytes(Name_PI)))

\* A segment of a Parameter "PI" and a Parameter "d0" has been decoded: the
\* first is named "pi", the second "d0", and one rename is in the log.
C18_Witness ==
    /\ seg[1].phase = "Done"
    /\ NodesOf(1, "90874D26", ParameterBytes(Name_PI)) = {1}
    /\ NodesOf(1, "90874D26", ParameterBytes(Name_d0)) = {2}
    /\ NameOf(1, 1) = ArrV(Name_pi)
    /\ NameOf(1, 2) = ArrV(Name_d0)
    /\ seg[1].log = <<"translated parameter name">>

\* A stream other than a property stream at the top level of the file.
NoPropertyStream(fname) == ~(Len(fname) = 1 /\ Last(fname)[1] = "x05")

NoPropertyRead(rd) == NoPropertyStream(rd.fname)

\* C19: readProperties decides nothing but the reading of the property streams
\* at the top level: every other stream of the file is handed to the same reader
\* with either value, and when insert (False) has raised and open (True) has
\* read the file again, both have made the same reads of those streams.
C19_PropertiesOnly ==
    /\ \A k \in DOMAIN file.streams :
          NoPropertyStream(file.streams[k].fname)
              => Reader(file.streams[k].fname, file.streams[k].data, TRUE)
                    = Reader(file.streams[k].fname, file.streams[k].data, FALSE)
    /\ Len(calls) = 2
          => SelectSeq(calls[1].reads, NoPropertyRead)
                = SelectSeq(calls[2].reads, NoPropertyRead)

\* insert has read a property stream without its properties and a segment, and
\* raised; open has read the same file with the properties.
C19_Witness ==
    /\ Len(calls) = 2
    /\ calls[1].by = "insert"
    /\ calls[2].by = "open"
    /\ \E k \in DOMAIN calls[1].reads :
          /\ ~NoPropertyRead(calls[1].reads[k])
          /\ calls[1].reads[k].reader = "none"
          /\ calls[2].reads[k].reader = "getproperties"
    /\ \E k \in DOMAIN calls[2].reads : calls[2].reads[k].reader = "ReadRSeMetaDataM"

\* A stream named RSeDb inside a storage.
IsRSeDb(fname) == Len(fname) > 1 /\ Last(fname) = RSeDb

SegmentReads(rds) == { k \in DOMAIN rds : rds[k].reader = "ReadRSeMetaDataM" }

\* The data of the stream that has the name of the M stream fname with B in the
\* place of M.
SiblingData(fname) ==
    file.streams[FindStream(file, [fname EXCEPT ![Len(fname)] = Nm("B", @[2])])].data

\* C22: no B stream of a storage is in the read order; each M stream of
\* RSeStorage that is read starts one decode, on the node table of that M stream
\* and the bytes of its B sibling, and there are as many decodes as M streams
\* read.
C22_MThenB ==
    /\ \A k \in DOMAIN list : ~(Len(list[k]) > 1 /\ Last(list[k])[1] = "B")
    /\ \A k \in DOMAIN reads : Last(reads[k].fname)[1] = "B" => Len(reads[k].fname) = 1
    /\ pc \in {"loop", "segment", "done"} => run = Cardinality(SegmentReads(reads))
    /\ pc = "segment" /\ caller # "none"
          => /\ reads[Len(reads)].fname = list[counter]
             /\ reads[Len(reads)].reader = "ReadRSeMetaDataM"
             /\ list[counter][1] = RSeStorage
             /\ ~isEmbeddings(list[counter])
             /\ sec = file.streams[FindStream(file, list[counter])].table
             /\ buffer = SiblingData(list[counter])

\* The second segment of a file is being decoded: two M streams were read, the
\* first segment is done and the reader works on the second B stream.
C22_Witness ==
    /\ pc = "segment"
    /\ run = 2
    /\ Cardinality(SegmentReads(reads)) = 2
    /\ seg[1].phase = "Done"
    /\ seg[2].phase = "Decoding"
    /\ Len(buffer) > 0
    /\ buffer = SiblingData(list[counter])
    /\ Last(list[counter]) = Nm("M", "B")

\* The document kind of the last Document node among the given nodes, DOC_UNSET
\* when there is none.
RECURSIVE LastDocKind(_)
LastDocKind(nodes) ==
    IF nodes = <<>> THEN DOC_UNSET
    ELSE IF nodes[Len(nodes)].typeID = "90874D16" THEN DOC_PART
    ELSE IF nodes[Len(nodes)].typeID = "90874D46" THEN DOC_ASSEMBLY
    ELSE LastDocKind(SubSeq(nodes, 1, Len(nodes) - 1))

\* The decoder of the node came to its test of self.type.
ReadsKind(node, ver) ==
    \/ node.typeID = "452121B6" /\ ver > 2011 /\ "u32_0" \in DOMAIN node.attrs
    \/ node.typeID = "6CA92D02" /\ "u8_1" \in DOMAIN node.attrs

\* The kind of the Document node the reader decoded last, in this decode of the
\* stream or in the one before it.
KindDecoded ==
    IF LastDocKind(seg[run].nodes) # DOC_UNSET THEN LastDocKind(seg[run].nodes)
    ELSE IF run = 2 THEN LastDocKind(seg[1].nodes)
    ELSE DOC_UNSET

\* C23: whenever the decoder of a record reads the reader's document kind, a
\* Document node was decoded before, and the kind read is the kind of the last
\* Document node decoded.
C23_KindReadAfterDocument ==
    [][(/\ seg[run].phase = "Decoding"
        /\ Len(seg'[run].nodes) = Len(seg[run].nodes) + 1
        /\ ReadsKind(seg'[run].nodes[Len(seg'[run].nodes)], fileVersion))
           => /\ KindDecoded # DOC_UNSET
              /\ rtype = KindDecoded]_vars

\* C24: the file version changes only in the step of ReadFile that comes before
\* its loop, when no stream of the call has been read, and while the streams of
\* a compound file are read and decoded it is the version of that file.
C24_VersionSetOnce ==
    /\ [][fileVersion' # fileVersion
             => /\ pc = "ReadFile"
                /\ pc' = "loop"
                /\ counter' = 1
                /\ reads' = <<>>
                /\ fileVersion' = file.version]_vars
    /\ [](pc \in {"loop", "segment"} /\ caller # "none" => fileVersion = file.version)

\* The second segment of a file of release 2012 is being decoded, one record of
\* it is decoded, and the version is the one set before the first stream.
C24_Witness ==
    /\ pc = "segment"
    /\ caller = "open"
    /\ run = 2
    /\ seg[1].phase = "Done"
    /\ seg[2].phase = "Decoding"
    /\ Len(seg[2].nodes) = 1
    /\ file.version = 2012
    /\ fileVersion = 2012

\* The value of a reference attribute read from index idx: null for idx = 0,
\* else the queued reference of the given kind to idx.
RefIs(st, name, idx, type) ==
    /\ name \in DOMAIN st.attrs
    /\ IF idx = 0 THEN st.attrs[name] = NullV
       ELSE /\ st.attrs[name][1] = "ref"
            /\ st.childIndexes[st.attrs[name][2]].index = idx
            /\ st.childIndexes[st.attrs[name][2]].type = type

\* The place in the queue of the reference attribute name, 0 for null.
QueuedAt(st, name) == IF st.attrs[name] = NullV THEN 0 ELSE st.attrs[name][2]

\* C25: ReadConstraintHeader2D reads the content header, then refGroup, and
\* refParameter last; it reads lst0 and lst1 exactly when fileVersion > 2012 and
\* steps over 8 bytes otherwise; versions on the same side of 2012 decode a
\* buffer alike, 2012 and 2013 do not; a header written for the decoding version
\* is read to its end with the references it was written with.
C25_ConstraintHeaderLayout ==
    (probe.called /\ probe.fn = "ReadConstraintHeader2D")
        => /\ \A v, w \in Versions :
                 ((v > 2012) = (w > 2012)) => probe.res[v] = probe.res[w]
           /\ \A v \in Versions :
                 ~probe.res[v].err
                    => /\ ("lst0" \in DOMAIN probe.res[v].attrs) = (v > 2012)
                       /\ ("lst1" \in DOMAIN probe.res[v].attrs) = (v > 2012)
                       /\ probe.res[v].attrs["ContentHeader"] = BoolV(TRUE)
                       /\ probe.res[v].attrs["s32_0"] = IntV(9)
                       /\ RefIs(probe.res[v], "refGroup", probe.group, TYPE_CROSS)
                       /\ QueuedAt(probe.res[v], "refGroup") # 0
                             => QueuedAt(probe.res[v], "refGroup") = 3
                       /\ QueuedAt(probe.res[v], "refParameter") # 0
                             => QueuedAt(probe.res[v], "refParameter")
                                   = Len(probe.res[v].childIndexes)
                       /\ (v > 2012) = (probe.wver > 2012)
                             => /\ probe.res[v].i = Len(probe.st.data)
                                /\ RefIs(probe.res[v], "refParameter", probe.param,
                                         TYPE_CROSS)
                                /\ v > 2012
                                      => /\ Len(probe.res[v].attrs["lst0"][2]) = probe.n0
                                         /\ Len(probe.res[v].attrs["lst1"][2]) = probe.n1
           /\ (~probe.res[2012].err \/ ~probe.res[2013].err)
                 => probe.res[2012] # probe.res[2013]

\* A header written for release 2013 with one entry in each list was read: with
\* 2013 to its end with both lists, with 2012 without them.
C25_Witness ==
    /\ probe.called
    /\ probe.fn = "ReadConstraintHeader2D"
    /\ probe.wver = 2013
    /\ probe.n0 = 1
    /\ probe.n1 = 1
    /\ probe.group = 1
    /\ probe.param = 2
    /\ ~probe.res[2013].err
    /\ probe.res[2013].i = Len(probe.st.data)
    /\ Len(probe.res[2013].attrs["lst0"][2]) = 1
    /\ ~probe.res[2012].err
    /\ "lst0" \notin DOMAIN probe.res[2012].attrs
    /\ probe.res[2012].i < Len(probe.st.data)

\* Bit b (a power of two) of the 32-bit word x.
BitSet(x, b) == (x \div b) % 2 = 1

\* C26: ReadContentHeader reads the Header0 markers, the label, the flags word,
\* the parent reference and the index in this order (a header written in this
\* order is read back field by field, 30 bytes in all, the label queued before
\* the parent), and visible is true exactly when bit 0x400 of the flags is set,
\* dimensioningVisible exactly when bit 0x800000 is set.
C26_ContentHeader ==
    (probe.called /\ probe.fn = "ReadContentHeader" /\ ~probe.res.err)
        => /\ probe.res.i = Len(probe.st.data) - 1
           /\ probe.res.i = 10 + 4 + 4 + 4 + 4 + 4
           /\ probe.res.attrs["hdr_u32"] = IntV(1)
           /\ RefIs(probe.res, "label", probe.label, TYPE_CHILD)
           /\ probe.res.attrs["flags"] = IntV(probe.flags)
           /\ RefIs(probe.res, "parentIndex", probe.parent, TYPE_PARENT)
           /\ probe.res.attrs["index"] = IntV(probe.index)
           /\ (probe.label # 0 /\ probe.parent # 0)
                 => QueuedAt(probe.res, "label") < QueuedAt(probe.res, "parentIndex")
           /\ probe.res.attrs["visible"] = BoolV(BitSet(probe.flags, 1024))
           /\ probe.res.attrs["dimensioningVisible"] = BoolV(BitSet(probe.flags, 8388608))
           /\ probe.res.attrs["ContentHeader"] = BoolV(TRUE)

\* A header with flags 0x800000 + 0x3FF was read: dimensioningVisible is true,
\* visible is false, and both references are queued.
C26_Witness ==
    /\ probe.called
    /\ probe.fn = "ReadContentHeader"
    /\ ~probe.res.err
    /\ probe.flags = 8388608 + 1023
    /\ probe.label = 1
    /\ probe.parent = 2
    /\ probe.res.attrs["visible"] = BoolV(FALSE)
    /\ probe.res.attrs["dimensioningVisible"] = BoolV(TRUE)
    /\ Len(probe.res.childIndexes) = 2

\* No position from the declared record end on holds a marker equal to the
\* declared size.
NoRealigningMarker ==
    \A p \in ScanDeclaredEnd..(Len(probe.data) - 4) :
        getUInt32(probe.data, p) # probe.node.size

\* C27: when the scan of setNodeData finds no position whose marker equals the
\* declared size, it stops at the end of the buffer without an error, every
\* marker it read lying inside the buffer, and node.size is len(data) minus the
\* node's offset.
C27_ScanStopsAtBufferEnd ==
    (/\ probe.called
     /\ ScanKey
     /\ CanRead(probe.data, ScanDeclaredEnd, 4)
     /\ NoRealigningMarker)
        => /\ ~probe.res.raised
           /\ probe.res.node.size = Len(probe.data) - probe.node.offset

\* C28: an exception that leaves ReadFile or create3dModel under insert is not
\* passed on: the one step that follows it is open, which makes a new document
\* and calls ReadFile again; insert leads to at most one call of open and at
\* most two ReadFile calls, the first by insert and the second by open.  When
\* canImport() does not hold, nothing is read and no document is made.
C28_InsertFallsBackToOpen ==
    /\ [][(pc = "raised" /\ caller = "insert")
             => /\ caller' = "open"
                /\ pc' = "ReadFile"
                /\ newDocs' = newDocs + 1
                /\ reads' = <<>>
                /\ file' = file]_vars
    /\ [](entry = "insert"
             => /\ newDocs <= 1
                /\ Len(calls) <= 2
                /\ Len(calls) = 2 => calls[1].by = "insert" /\ calls[2].by = "open"
                /\ newDocs = 1
                      => /\ caller = "open"
                         /\ calls # <<>>
                         /\ calls[1].by = "insert"
                         /\ \/ calls[1].result = "raised"
                            \/ calls[1].result = "True" /\ env.modelRaises
                /\ pc = "crashed" => newDocs = 1)
    /\ [](~env.canImport
             => /\ pc \in {"start", "done"}
                /\ reads = <<>>
                /\ calls = <<>>
                /\ newDocs = 0
                /\ run = 0
                /\ ~model3d)

\* create3dModel raised under insert after ReadFile had read two segments; open
\* made one new document and read the same streams, and its create3dModel
\* raised as well.
C28_Witness ==
    /\ entry = "insert"
    /\ env.modelRaises
    /\ pc = "crashed"
    /\ newDocs = 1
    /\ Len(calls) = 2
    /\ calls[1].result = "True"
    /\ calls[2].result = "True"
    /\ Cardinality(SegmentReads(calls[1].reads)) = 2
    /\ Len(calls[2].reads) = Len(calls[1].reads)

\* C29: for every file version the DerivedPart decoder reads one of two tails
\* after a0, the word u32_1 (4 bytes, u8_0 = 0) or a block-size marker and the
\* byte u8_0 (5 bytes), never both, and u32_0 is the word read from the stream.
C29_OneTailLayout ==
    (probe.called /\ probe.fn = "Read_255D7ED7")
        => \A v \in Versions :
              ~probe.res[v].err
                 => /\ probe.res[v].i - Len(DerivedPartHead(probe.u32)) \in {4, 5}
                    /\ probe.res[v].attrs["u32_0"] = IntV(probe.u32)

\* C30: when ReadFile returns True on a document whose Comment was not empty,
\* the previous text is still the beginning of doc.Comment and the
\* "read from" line follows it after a newline; when the Comment was empty,
\* doc.Comment is exactly that line.
C30_CommentKept ==
    [][ReadFileReturn =>
          comment' = IF Len(comment) > 0
                     THEN comment \o <<"\n", ReadFromLine>>
                     ELSE <<ReadFromLine>>]_vars

=============================================================================
